---- MODULE Spec2Model ----
(***************************************************************************)
(* Model of the in-sequence measurement buffers of                         *)
(* minimal_latency_in_sequence_buffer: FixedLagBuffer, MinimalLatencyBuffer *)
(* and the StreamCharacteristicsEstimator the latter consults.              *)
(*                                                                         *)
(* Time and Duration are int64 nanosecond counts in the source; here they  *)
(* are integers of the same unit, with inputs drawn from 0..MaxTime.        *)
(* The estimator's double fields are fixed-point numbers with Scale steps  *)
(* per unit, every product and quotient rounded to the nearest step.       *)
(* Orders the C++ standard leaves open (std::sort among equal meas_time,   *)
(* std::unordered_map iteration) are nondeterministic choices.             *)
(***************************************************************************)
EXTENDS Integers, Sequences, FiniteSets, TLC

\* ------------------------------------------------------------------ bounds
\* Largest time stamp a caller passes to push or pop.
MaxTime == 2
\* Number of push calls in one run (each push carries a fresh payload).
MaxPush == 4
\* Number of push calls to a FixedLagBuffer fed by three sources: a reference
\* sample, its successor, a sample of either other source and one more.
MaxMatchPush == 5
\* Number of push calls to a MinimalLatencyBuffer fed by one source until its
\* estimator can raise: three pushes initialize it, nine more bring num_updates
\* above 10, two go astray.
MaxDesyncPush == 14
\* push and pop are only called while the queue holds at most MaxLen elements.
MaxLen == 5
\* Number of samples with one and the same time stamp a source delivers.
MaxSame == 3
\* Number of pushes to a buffer that is pushed late.
MaxLate == 3
\* Number of calls made to an estimator driven on its own.
MaxUpdates == 12
\* Latest meas_time such an estimator is called with.
MaxEstTime == 13

\* The two source ids of the unit tests (SENSOR_A, SENSOR_B), renamed 1 and 2.
Sources == {1, 2}
Times == 0..MaxTime
Modes == {"SINGLE", "BATCH", "MATCH"}

\* --------------------------------------------------------------- parameters
\* MinimalLatencyBuffer::Params of the buffer under test (mode is a variable).
\* The confidence quantiles keep their default 0.99, see NormalQuantile.
ML_Params ==
    [ reset_threshold            |-> 1,
      max_abs_measurement_jitter |-> 2,
      max_abs_wait_jitter        |-> 2,
      max_total_wait_time        |-> 2,
      batch                      |-> [max_delta |-> 2],
      match                      |-> [reference_stream |-> 1] ]

\* FixedLagBuffer::Params of the buffer under test (mode and delay_mean are
\* chosen at construction); delay_stddev = 0, so no quantile term is added.
FL_Params ==
    [ reset_threshold |-> 0,
      delay_stddev    |-> 0,
      batch           |-> [max_delta |-> 2],
      match           |-> [reference_stream |-> 1, num_streams |-> 2] ]

\* delay_mean values a FixedLagBuffer is constructed with.
DelayMeans == {-2, 0}

\* ------------------------------------------------------------------ helpers
Min(a, b) == IF a <= b THEN a ELSE b
Max(a, b) == IF a >= b THEN a ELSE b
Abs(a) == IF a >= 0 THEN a ELSE -a
Clamp(v, lo, hi) == IF v < lo THEN lo ELSE IF hi < v THEN hi ELSE v

RECURSIVE SeqToSet(_)
SeqToSet(s) == IF s = <<>> THEN {} ELSE {Head(s)} \cup SeqToSet(Tail(s))

\* All orders in which a finite set can be iterated.
RECURSIVE Orders(_)
Orders(S) ==
    IF S = {} THEN {<<>>}
    ELSE UNION { { <<x>> \o t : t \in Orders(S \ {x}) } : x \in S }

\* ----------------------------------------------------------------- TimeData
\* std::optional<Data>: <<>> is std::nullopt, <<p>> holds payload p.
TimeData(id, meas_time, receipt_time, earliest, latest, payload) ==
    [ id |-> id, meas_time |-> meas_time, receipt_time |-> receipt_time,
      earliest_estimated_meas_time |-> earliest,
      latest_receipt_time |-> latest,
      data |-> payload, created_placeholder |-> FALSE ]

\* A test that takes every element for a real sample.
is_placeholder_never(e) == FALSE

\* TimeData::is_placeholder(): the element holds no payload.
is_placeholder(e) == e.data = <<>>

\* A comparator that orders by meas_time the other way round.
MeasTimeComparator_reversed(first, second) == first.meas_time > second.meas_time

\* MeasTimeComparator
MeasTimeComparator(first, second) == first.meas_time < second.meas_time

is_sorted(s) ==
    \A i \in 1..(Len(s) - 1) : ~MeasTimeComparator(s[i + 1], s[i])

\* A sequence without the first occurrence of x.
RECURSIVE RemoveOne(_, _)
RemoveOne(s, x) ==
    IF s = <<>> THEN <<>>
    ELSE IF Head(s) = x THEN Tail(s)
    ELSE <<Head(s)>> \o RemoveOne(Tail(s), x)

\* Every arrangement of the elements of a sequence (equal elements counted once).
RECURSIVE Arrangements(_)
Arrangements(s) ==
    IF s = <<>> THEN {<<>>}
    ELSE UNION { { <<x>> \o t : t \in Arrangements(RemoveOne(s, x)) } : x \in SeqToSet(s) }

\* std::sort(_data.begin(), _data.end(), MeasTimeComparator_t()): the sort is
\* not stable, so the result is any order of the elements in which meas_time
\* does not decrease: the elements of the smallest meas_time in any
\* arrangement, then the rest sorted.
RECURSIVE std_sort(_)
\* No sort at all.
std_sort_none(s) == {s}

std_sort(s) ==
    IF s = <<>> THEN {<<>>}
    ELSE LET first == CHOOSE e \in SeqToSet(s) : \A o \in SeqToSet(s) : ~MeasTimeComparator(o, e)
             lowest == SelectSeq(s, LAMBDA e : ~MeasTimeComparator(first, e))
             others == SelectSeq(s, LAMBDA e : MeasTimeComparator(first, e))
         IN  { a \o t : a \in Arrangements(lowest), t \in std_sort(others) }

\* Whether an index list (a sequence of 1-based positions) repeats an index.
HasDuplicate(inds) == \E i, j \in 1..Len(inds) : i < j /\ inds[i] = inds[j]

\* remove_indices(vec, idx_begin, idx_end) for an index list without
\* duplicates: the elements at the other positions, in their order.
RECURSIVE KeepOthers(_, _, _)
KeepOthers(vec, gone, i) ==
    IF i > Len(vec) THEN <<>>
    ELSE (IF i \in gone THEN <<>> ELSE <<vec[i]>>) \o KeepOthers(vec, gone, i + 1)

\* A remove_indices that removes nothing.
remove_indices_none(vec, inds) == vec

remove_indices(vec, inds) ==
    IF inds = <<>> THEN vec ELSE KeepOthers(vec, SeqToSet(inds), 1)

\* ------------------------------------------- StreamCharacteristicsEstimator
\* Fixed-point steps per unit of the double fields: a mean m is held as
\* m * Scale, a variance v as v * Scale.
Scale == 1000

\* a / b rounded to the nearest integer (b > 0).
RDiv(a, b) == (2 * a + b) \div (2 * b)

\* static_cast<Duration::rep>(double): truncation toward zero.
Trunc(x) == IF x >= 0 THEN x \div Scale ELSE -((-x) \div Scale)

\* floor(sqrt(n)) for n >= 0.
ISqrt(n) == CHOOSE r \in 0..(n + 1) : r * r <= n /\ n < (r + 1) * (r + 1)

\* StreamCharacteristicsEstimator(current_time, meas_time, alpha = 0.05)
Estimator(current_time_, meas_time) ==
    [ num_updates    |-> 0,
      last_meas_time |-> meas_time,
      current_time   |-> current_time_,
      period_state   |-> [mean |-> 0, variance |-> 0],
      latency_state  |-> [mean |-> (current_time_ - meas_time) * Scale, variance |-> 0] ]

latency(e) == Trunc(e.latency_state.mean)
latency_stddev(e) == ISqrt(e.latency_state.variance \div Scale)
period(e) == Trunc(e.period_state.mean)
period_stddev(e) == ISqrt(e.period_state.variance \div Scale)
isInitialized(e) == e.num_updates >= 2

\* updateEstimates(state, estimate, update_variance) with alpha = 1/20.
updateEstimates(state, estimate, update_variance) ==
    LET diff == estimate - state.mean
        increment == RDiv(diff, 20)
    IN  [ mean     |-> state.mean + increment,
          variance |-> IF update_variance
                       THEN RDiv(19 * (state.variance + RDiv(diff * increment, Scale)), 20)
                       ELSE state.variance ]

\* pow(a, 2) + pow(b, 2) in variance steps.
SumOfSquares(a, b) == RDiv(a * a, Scale) + RDiv(b * b, Scale)

\* A period update that ignores the number of missing measurements.
updatePeriodEstimate_uncorrected(e, estimate, num_missing_measurements) ==
    IF e.num_updates = 0
    THEN [threw |-> FALSE, state |-> [e.period_state EXCEPT !.mean = estimate]]
    ELSE [threw |-> FALSE, state |-> updateEstimates(e.period_state, estimate, e.num_updates > 1)]

\* updatePeriodEstimate(estimate, num_missing_measurements): the new
\* _period_state, and whether std::runtime_error was thrown.
updatePeriodEstimate(e, estimate, num_missing_measurements) ==
    IF e.num_updates = 0
    THEN [threw |-> FALSE, state |-> [e.period_state EXCEPT !.mean = estimate]]
    ELSE IF e.num_updates = 1
    THEN LET first_estimate == e.period_state.mean
             upd == updateEstimates(e.period_state, estimate, FALSE)
         IN  [ threw |-> FALSE,
               state |-> [ mean     |-> upd.mean,
                           variance |-> SumOfSquares(first_estimate - upd.mean,
                                                     estimate - upd.mean) ] ]
    ELSE LET corrected_estimate ==
                 estimate - num_missing_measurements * e.period_state.mean
         IN  IF corrected_estimate < 0
             THEN [threw |-> e.num_updates > 10, state |-> e.period_state]
             ELSE [ threw |-> FALSE,
                    state |-> updateEstimates(e.period_state, corrected_estimate, TRUE) ]

\* updateLatencyEstimate(estimate): the new _latency_state.
updateLatencyEstimate(e, estimate) ==
    IF e.num_updates = 0
    THEN LET upd == updateEstimates(e.latency_state, estimate, FALSE)
             first_estimate == (e.current_time - e.last_meas_time) * Scale
         IN  [ mean     |-> upd.mean,
               variance |-> SumOfSquares(first_estimate - upd.mean, estimate - upd.mean) ]
    ELSE updateEstimates(e.latency_state, estimate, TRUE)

\* An update that throws on every negative corrected estimate, however few
\* updates went before.
update_no_grace(e, current_time_, meas_time, num_missing_measurement) ==
    LET estimated_period == (meas_time - e.last_meas_time) * Scale
        p == updatePeriodEstimate(e, estimated_period, num_missing_measurement)
    IN  IF e.num_updates >= 2 /\ p.state = e.period_state /\ ~p.threw
        THEN [threw |-> TRUE, est |-> e]
        ELSE [ threw |-> p.threw,
               est |-> IF p.threw THEN e
                       ELSE [ num_updates    |-> e.num_updates + 1,
                              last_meas_time |-> meas_time,
                              current_time   |-> current_time_,
                              period_state   |-> p.state,
                              latency_state  |-> updateLatencyEstimate(e, (current_time_ - meas_time) * Scale) ] ]

\* An update that counts the call before it raises.
update_counted_first(e, current_time_, meas_time, num_missing_measurement) ==
    LET estimated_latency == (current_time_ - meas_time) * Scale
        estimated_period == (meas_time - e.last_meas_time) * Scale
        p == updatePeriodEstimate(e, estimated_period, num_missing_measurement)
    IN  IF p.threw
        THEN [threw |-> TRUE, est |-> [e EXCEPT !.num_updates = @ + 1]]
        ELSE [ threw |-> FALSE,
               est |-> [ num_updates    |-> e.num_updates + 1,
                         last_meas_time |-> meas_time,
                         current_time   |-> current_time_,
                         period_state   |-> p.state,
                         latency_state  |-> updateLatencyEstimate(e, estimated_latency) ] ]

\* update(current_time, meas_time, num_missing_measurement): the estimator
\* afterwards, unchanged when updatePeriodEstimate threw.
update(e, current_time_, meas_time, num_missing_measurement) ==
    LET estimated_latency == (current_time_ - meas_time) * Scale
        estimated_period == (meas_time - e.last_meas_time) * Scale
        p == updatePeriodEstimate(e, estimated_period, num_missing_measurement)
    IN  IF p.threw
        THEN [threw |-> TRUE, est |-> e]
        ELSE [ threw |-> FALSE,
               est |-> [ num_updates    |-> e.num_updates + 1,
                         last_meas_time |-> meas_time,
                         current_time   |-> current_time_,
                         period_state   |-> p.state,
                         latency_state  |-> updateLatencyEstimate(e, estimated_latency) ] ]

\* A latency update that counts as an update.
updateLatencyOnly_counted(e, current_time_, meas_time) ==
    [ e EXCEPT !.latency_state =
                   updateLatencyEstimate(e, (current_time_ - meas_time) * Scale),
               !.last_meas_time = meas_time,
               !.current_time = current_time_,
               !.num_updates = @ + 1 ]

\* updateLatencyOnly(current_time, meas_time)
updateLatencyOnly(e, current_time_, meas_time) ==
    [ e EXCEPT !.latency_state =
                   updateLatencyEstimate(e, (current_time_ - meas_time) * Scale),
               !.last_meas_time = meas_time,
               !.current_time = current_time_ ]

\* |boost::math::quantile(normal_distribution(0, sqrt(variance)), q)| for the
\* default confidence 0.99, q = 0.005 or 0.995, truncated to a Duration:
\* floor(2.5758293 * sqrt(variance)), 2.5758293^2 = 6.634897.
NormalQuantile(variance) == ISqrt((6634897 * variance) \div 1000000)

\* -------------------------------------------------------------------- state
VARIABLES
    kind,             \* the class under test: "FixedLag", "MinimalLatency" or "Estimator"
    mode,             \* _params.mode
    fixed_lag_delay,  \* FixedLagBuffer::_fixed_lag_delay (0 for the other class)
    data,             \* _data, the queue
    source_infos,     \* MinimalLatencyBuffer::_source_infos: id -> estimator
    buffer_time,      \* _buffer_time
    current_time,     \* _current_time
    crashed,          \* the process ran into undefined behaviour and is gone
    npush,            \* push calls made so far; the next payload is npush + 1
    returned,         \* payload -> how often a pop has returned it since the last reset
    last_out,         \* <<meas_time>> of the last sample of all `data` so far, <<>> if none
    ret               \* the last call and what it returned

vars == << kind, mode, fixed_lag_delay, data, source_infos, buffer_time,
           current_time, crashed, npush, returned, last_out, ret >>

Payloads == 1..(IF MaxDesyncPush > MaxMatchPush THEN MaxDesyncPush ELSE MaxMatchPush)
\* Time{std::chrono::seconds(0)}
Epoch == 0

\* What a call leaves for the caller to see, and what it was called with.
Ret(op, result, time, id, meas_time) ==
    [ op |-> op, result |-> result, time |-> time, id |-> id, meas_time |-> meas_time,
      buffer_time |-> buffer_time, buffer_time_before |-> buffer_time,
      current_time_before |-> current_time,
      data |-> <<>>, discarded_data |-> <<>>,
      ready_inds |-> <<>>, output_inds |-> <<>>, discard_inds |-> <<>>,
      delete_inds |-> <<>>, clamped_time |-> time, created |-> <<>> ]

\* The payloads of a vector of samples, with their number of occurrences added.
RECURSIVE CountReturned(_, _)
CountReturned(cnt, s) ==
    IF s = <<>> THEN cnt
    ELSE LET p == Head(s).data
         IN  CountReturned(IF p # <<>> /\ p[1] \in DOMAIN cnt
                           THEN [cnt EXCEPT ![p[1]] = @ + 1] ELSE cnt,
                           Tail(s))

NoneReturned == [p \in Payloads |-> 0]

\* std::move(_data.at(idx)) a second time: the optional still holds a value,
\* the value is the moved-from one (payload 0).
MovedFrom(e) == [e EXCEPT !.data = IF e.data = <<>> THEN <<>> ELSE <<0>>]

\* The elements at the positions an index list names, in the list's order.
RECURSIVE ElementsAt(_, _)
ElementsAt(vec, inds) ==
    IF inds = <<>> THEN <<>> ELSE <<vec[Head(inds)]>> \o ElementsAt(vec, Tail(inds))

\* ------------------------------------------------------------ FixedLagBuffer
\* FixedLagBuffer(params): _fixed_lag_delay.
FL_FixedLagDelay(delay_mean, mode_) ==
    delay_mean
    + (IF mode_ = "BATCH" THEN FL_Params.batch.max_delta ELSE 0)
    + (IF FL_Params.delay_stddev > 0 THEN NormalQuantile(FL_Params.delay_stddev * FL_Params.delay_stddev) ELSE 0)

\* A first loop of pop for which every element newer than the last output is
\* due, whatever the fixed lag.
RECURSIVE FL_walk(_, _, _, _)
FL_walk_all_due(idx, ref_meas_time, output_inds, discard_inds) ==
    IF idx > Len(data) THEN [output_inds |-> output_inds, discard_inds |-> discard_inds]
    ELSE IF data[idx].meas_time <= buffer_time
    THEN FL_walk(idx + 1, ref_meas_time, output_inds, Append(discard_inds, idx))
    ELSE FL_walk(idx + 1, ref_meas_time, Append(output_inds, idx), discard_inds)

\* A test that spares an element measured exactly at the last output.
FL_is_stale_strict(element) == element.meas_time < buffer_time

\* pop: an element no newer than the last output is discarded.
FL_is_stale(element) == element.meas_time <= buffer_time

\* The first loop of pop: discard_inds and output_inds of the sorted queue.
FL_walk(idx, ref_meas_time, output_inds, discard_inds) ==
    IF idx > Len(data) THEN [output_inds |-> output_inds, discard_inds |-> discard_inds]
    ELSE IF FL_is_stale(data[idx])
    THEN FL_walk(idx + 1, ref_meas_time, output_inds, Append(discard_inds, idx))
    ELSE IF data[idx].meas_time <= ref_meas_time
    THEN FL_walk(idx + 1, ref_meas_time, Append(output_inds, idx), discard_inds)
    ELSE [output_inds |-> output_inds, discard_inds |-> discard_inds]

\* A batch that ends with the ready samples.
FL_batch_ready_only(output_inds) ==
    SelectSeq(output_inds,
              LAMBDA idx : data[idx].meas_time
                               < data[Head(output_inds)].meas_time + FL_Params.batch.max_delta)

\* BATCH branch of pop.
FL_batch(output_inds) ==
    LET oldest_output_time == data[Head(output_inds)].meas_time
        batch_reference_time == oldest_output_time + FL_Params.batch.max_delta
    IN  <<Head(output_inds)>> \o
        SelectSeq([i \in 1..Len(data) |-> i],
                  LAMBDA idx : idx > Head(output_inds)
                               /\ data[idx].meas_time < batch_reference_time)

\* The reference stream's positions within an index list.
RefsIn(vec, inds, reference_stream) ==
    SelectSeq(inds, LAMBDA idx : vec[idx].id = reference_stream)

\* The candidate loop of FixedLagBuffer::runMatching from position idx on:
\* matching_map (id -> [idx, tau]) and found_better_for_next.
RECURSIVE FL_candidates(_, _, _, _)

\* A candidate loop that sets found_better_for_next wherever it stops at a
\* sample closer to the next reference.
FL_candidates_any_stop(idx, oldest_ref_meas_time, next_ref_meas_time, matching_map) ==
    IF idx > Len(data)
    THEN [matching_map |-> matching_map, found_better_for_next |-> FALSE]
    ELSE LET element == data[idx]
             current_diff == Abs(element.meas_time - oldest_ref_meas_time)
             next_diff == Abs(element.meas_time - next_ref_meas_time)
         IN  IF element.id = FL_Params.match.reference_stream
             THEN FL_candidates(idx + 1, oldest_ref_meas_time, next_ref_meas_time, matching_map)
             ELSE IF next_diff < current_diff
             THEN [matching_map |-> matching_map, found_better_for_next |-> TRUE]
             ELSE IF element.id \notin DOMAIN matching_map
                     \/ current_diff < matching_map[element.id].tau
             THEN FL_candidates(idx + 1, oldest_ref_meas_time, next_ref_meas_time,
                                [id \in DOMAIN matching_map \cup {element.id} |->
                                    IF id = element.id
                                    THEN [idx |-> idx, tau |-> current_diff]
                                    ELSE matching_map[id]])
             ELSE FL_candidates(idx + 1, oldest_ref_meas_time, next_ref_meas_time, matching_map)

FL_candidates(idx, oldest_ref_meas_time, next_ref_meas_time, matching_map) ==
    IF idx > Len(data)
    THEN [matching_map |-> matching_map, found_better_for_next |-> FALSE]
    ELSE LET element == data[idx]
             current_diff == Abs(element.meas_time - oldest_ref_meas_time)
             next_diff == Abs(element.meas_time - next_ref_meas_time)
         IN  IF element.id = FL_Params.match.reference_stream
             THEN FL_candidates(idx + 1, oldest_ref_meas_time, next_ref_meas_time, matching_map)
             ELSE IF next_diff < current_diff
             THEN [ matching_map |-> matching_map,
                    found_better_for_next |-> element.id \notin DOMAIN matching_map ]
             ELSE IF element.id \notin DOMAIN matching_map
                     \/ current_diff < matching_map[element.id].tau
             THEN FL_candidates(idx + 1, oldest_ref_meas_time, next_ref_meas_time,
                                [id \in DOMAIN matching_map \cup {element.id} |->
                                    IF id = element.id
                                    THEN [idx |-> idx, tau |-> current_diff]
                                    ELSE matching_map[id]])
             ELSE FL_candidates(idx + 1, oldest_ref_meas_time, next_ref_meas_time, matching_map)

\* A matching that returns the oldest ready reference sample on its own.
FL_runMatching_reference_only(ready_for_output_inds) ==
    LET refs == RefsIn(data, ready_for_output_inds, FL_Params.match.reference_stream)
    IN  [ tuple |-> IF refs = <<>> THEN {} ELSE {refs[1]}, delete_inds |-> <<>> ]

\* FixedLagBuffer::runMatching(ready_for_output_inds): the positions of the
\* tuple (a set: the map's iteration order is open) and delete_inds.
FL_runMatching(ready_for_output_inds) ==
    LET R == FL_Params.match.reference_stream
        refs == RefsIn(data, ready_for_output_inds, R)
    IN  IF refs = <<>> THEN [tuple |-> {}, delete_inds |-> <<>>]
        ELSE
        LET ref_idx == refs[1]
            oldest_ref_meas_time == data[ref_idx].meas_time
            later_refs == { idx \in (ref_idx + 1)..Len(data) : data[idx].id = R }
            next_ref_meas_time ==
                IF Len(refs) > 1 THEN data[refs[2]].meas_time
                ELSE IF later_refs # {}
                THEN data[CHOOSE idx \in later_refs : \A o \in later_refs : idx <= o].meas_time
                ELSE Epoch
            c == FL_candidates(1, oldest_ref_meas_time, next_ref_meas_time,
                               [id \in {R} |-> [idx |-> ref_idx, tau |-> 0]])
        IN  IF Cardinality(DOMAIN c.matching_map) # FL_Params.match.num_streams
            THEN [ tuple |-> {},
                   delete_inds |-> IF c.found_better_for_next THEN <<ref_idx>> ELSE <<>> ]
            ELSE [ tuple |-> { c.matching_map[id].idx : id \in DOMAIN c.matching_map },
                   delete_inds |-> <<>> ]

\* What stays the same over a call of either buffer.
Frame == UNCHANGED << kind, mode, fixed_lag_delay >>

\* A reset that clears the queue and leaves the two times alone.
FL_reset_queue_only ==
    /\ kind = "FixedLag" /\ ~crashed
    /\ data' = <<>>
    /\ returned' = NoneReturned
    /\ last_out' = <<>>
    /\ ret' = Ret("reset", "", 0, 0, 0)
    /\ Frame /\ UNCHANGED << buffer_time, current_time, source_infos, crashed, npush >>

\* FixedLagBuffer::reset()
FL_reset ==
    /\ kind = "FixedLag" /\ ~crashed
    /\ data' = <<>>
    /\ buffer_time' = Epoch
    /\ current_time' = Epoch
    /\ returned' = NoneReturned
    /\ last_out' = <<>>
    /\ ret' = [Ret("reset", "", 0, 0, 0) EXCEPT !.buffer_time = Epoch]
    /\ Frame /\ UNCHANGED << source_infos, crashed, npush >>

\* A clock that follows the receipt times as that of the other buffer does.
FL_clock_advanced(receipt_time) == Max(current_time, receipt_time)

\* push: _current_time is compared with receipt_time and not assigned.
FL_clock(receipt_time) == current_time

\* FixedLagBuffer::push(id, receipt_time, meas_time, data)
FL_push(id, receipt_time, meas_time) ==
    /\ kind = "FixedLag" /\ ~crashed
    /\ npush < MaxMatchPush /\ Len(data) <= MaxLen
    /\ npush' = npush + 1
    /\ IF current_time - receipt_time > FL_Params.reset_threshold
       THEN /\ data' = <<>>
            /\ buffer_time' = Epoch
            /\ current_time' = Epoch
            /\ returned' = NoneReturned
            /\ last_out' = <<>>
            /\ ret' = [Ret("push", "RESET", receipt_time, id, meas_time) EXCEPT !.buffer_time = Epoch]
       ELSE /\ \E sorted \in std_sort(Append(data,
                    TimeData(id, meas_time, receipt_time, meas_time, receipt_time, <<npush + 1>>))) :
                data' = sorted
            /\ ret' = Ret("push", "OK", receipt_time, id, meas_time)
            /\ current_time' = FL_clock(receipt_time)
            /\ UNCHANGED << buffer_time, returned, last_out >>
    /\ Frame /\ UNCHANGED << source_infos, crashed >>

\* FixedLagBuffer::pop(time)
FL_pop(time) ==
    /\ kind = "FixedLag" /\ ~crashed
    /\ Len(data) <= MaxLen
    /\ LET ref_meas_time == time - fixed_lag_delay
           w == FL_walk(1, ref_meas_time, <<>>, <<>>)
           m == FL_runMatching(w.output_inds)
           tuple == IF mode = "MATCH" /\ w.output_inds # <<>> THEN m.tuple ELSE {}
           discard_inds ==
               IF mode = "MATCH" /\ w.output_inds # <<>>
               THEN w.discard_inds \o m.delete_inds ELSE w.discard_inds
       IN  \E order \in Orders(tuple) :
           LET output_inds ==
                   IF w.output_inds = <<>> THEN <<>>
                   ELSE IF mode = "BATCH" THEN FL_batch(w.output_inds)
                   ELSE IF mode = "MATCH" THEN order
                   ELSE w.output_inds
               result_data == ElementsAt(data, output_inds)
               \* an element moved into result.data before is moved-from here
               result_discarded ==
                   [ k \in 1..Len(discard_inds) |->
                       IF discard_inds[k] \in SeqToSet(output_inds)
                       THEN MovedFrom(data[discard_inds[k]])
                       ELSE data[discard_inds[k]] ]
               new_buffer_time ==
                   IF result_data # <<>> THEN result_data[Len(result_data)].meas_time
                   ELSE buffer_time
               all_inds == discard_inds \o output_inds
           IN  \* remove_indices walks backwards over a repeated index: with
               \* libstdc++ std::move copies nothing for a negative distance,
               \* elsewhere the copy loop leaves the vector.
               \/ /\ \E sorted \in std_sort(remove_indices(data, all_inds)) : data' = sorted
                  /\ buffer_time' = new_buffer_time
                  /\ returned' = CountReturned(CountReturned(returned, result_data), result_discarded)
                  /\ last_out' = IF result_data # <<>> THEN <<new_buffer_time>> ELSE last_out
                  /\ ret' = [ Ret("pop", "", time, 0, 0) EXCEPT
                                !.buffer_time = new_buffer_time,
                                !.data = result_data,
                                !.discarded_data = result_discarded,
                                !.ready_inds = w.output_inds,
                                !.output_inds = output_inds,
                                !.discard_inds = discard_inds,
                                !.delete_inds = all_inds ]
                  /\ UNCHANGED << crashed >>
               \/ /\ HasDuplicate(all_inds)
                  /\ crashed' = TRUE
                  /\ UNCHANGED << data, buffer_time, returned, last_out, ret >>
    /\ Frame /\ UNCHANGED << source_infos, current_time, npush >>

\* ------------------------------------------------------ MinimalLatencyBuffer
\* MAX_INSERTED_PLACEHOLDERS
MAX_INSERTED_PLACEHOLDERS == 10

\* Duration / 2: integer division truncates toward zero.
HalfOf(d) == IF d >= 0 THEN d \div 2 ELSE -((-d) \div 2)

\* createPlaceholder(id, meas_time, placeholder_index); the caller has checked
\* that the source's estimator is initialized.
createPlaceholder(id, meas_time, placeholder_index) ==
    LET estimator == source_infos[id]
        period_offset == placeholder_index * period(estimator)
        period_variance == period_stddev(estimator) * period_stddev(estimator)
        \* period_stddev_sum squared
        period_variance_sum == placeholder_index * period_variance
        meas_quantile_limited ==
            IF period_variance_sum > 0
            THEN Clamp(-NormalQuantile(period_variance_sum),
                       -ML_Params.max_abs_measurement_jitter,
                       ML_Params.max_abs_measurement_jitter)
            ELSE 0
        wait_quantile_limited ==
            IF latency_stddev(estimator) > 0
            THEN Clamp(NormalQuantile(period_variance_sum
                                      + latency_stddev(estimator) * latency_stddev(estimator)),
                       -ML_Params.max_abs_wait_jitter,
                       ML_Params.max_abs_wait_jitter)
            ELSE 0
        earliest_expected_meas_time == meas_time + period_offset + meas_quantile_limited
        latest_expected_reception_time ==
            meas_time + period_offset
            + Min(latency(estimator) + wait_quantile_limited, ML_Params.max_total_wait_time)
    IN  TimeData(id, earliest_expected_meas_time, latest_expected_reception_time,
                 earliest_expected_meas_time, latest_expected_reception_time, <<>>)

\* A loop of create_placeholders that runs one index past max_number.
RECURSIVE PlaceholderLoop(_, _, _, _)
PlaceholderLoop_one_more(element, i, max_number, out) ==
    IF i > max_number + 1 THEN out
    ELSE LET placeholder == createPlaceholder(element.id, element.meas_time, i)
         IN  IF placeholder.earliest_estimated_meas_time > buffer_time
             THEN Append(out, placeholder)
             ELSE PlaceholderLoop(element, i + 1, max_number,
                                  Append(out, [placeholder EXCEPT !.created_placeholder = TRUE]))

\* The loop of create_placeholders from index i on: it stops after the first
\* placeholder expected later than _buffer_time, or past max_number.
PlaceholderLoop(element, i, max_number, out) ==
    IF i > max_number THEN out
    ELSE LET placeholder == createPlaceholder(element.id, element.meas_time, i)
         IN  IF placeholder.earliest_estimated_meas_time > buffer_time
             THEN Append(out, placeholder)
             ELSE PlaceholderLoop(element, i + 1, max_number,
                                  Append(out, [placeholder EXCEPT !.created_placeholder = TRUE]))

\* An expansion that leaves the element's created_placeholder as it was.
create_placeholders_unmarked(element, max_number) ==
    IF \/ element.id \notin DOMAIN source_infos
       \/ ~isInitialized(source_infos[element.id])
       \/ element.created_placeholder
    THEN [element |-> element, out |-> <<>>]
    ELSE [ element |-> element,
           out     |-> PlaceholderLoop(element, 1, max_number, <<>>) ]

\* An expansion that does not ask whether the estimator is initialized.
create_placeholders_unasked(element, max_number) ==
    IF element.id \notin DOMAIN source_infos \/ element.created_placeholder
    THEN [element |-> element, out |-> <<>>]
    ELSE [ element |-> [element EXCEPT !.created_placeholder = TRUE],
           out     |-> PlaceholderLoop(element, 1, max_number, <<>>) ]

\* create_placeholders(element, max_number): the element afterwards (its
\* created_placeholder flag) and the vector returned.
create_placeholders(element, max_number) ==
    IF \/ element.id \notin DOMAIN source_infos
       \/ ~isInitialized(source_infos[element.id])
       \/ element.created_placeholder
    THEN [element |-> element, out |-> <<>>]
    ELSE [ element |-> [element EXCEPT !.created_placeholder = TRUE],
           out     |-> PlaceholderLoop(element, 1, max_number, <<>>) ]

\* A test that also takes an element measured at the last output for stale.
ML_is_stale_inclusive(element) == element.meas_time <= buffer_time

\* A pop for which no element is older than the last output.
ML_is_stale_never(element) == FALSE

\* pop: an element older than the last output is discarded.
ML_is_stale(element) == element.meas_time < buffer_time

\* The loop of pop over _data from position i on. w holds the loop's state:
\* _data (flags set by create_placeholders), the three index lists,
\* cleaned_data, the local `time`, and in `created` the size of every
\* non-empty vector create_placeholders returned.
RECURSIVE ML_walk(_, _)

\* An iteration that deletes a stale placeholder as it deletes a stale sample.
ML_expand_deletes_placeholder(i, w, stale, element, cp) ==
    ML_walk(i + 1,
        [ data         |-> [w.data EXCEPT ![i] = cp.element],
          output_inds  |-> IF ~stale /\ ~is_placeholder(element)
                           THEN Append(w.output_inds, i) ELSE w.output_inds,
          discard_inds |-> IF stale /\ ~is_placeholder(element)
                           THEN Append(w.discard_inds, i) ELSE w.discard_inds,
          delete_inds  |-> IF stale THEN Append(w.delete_inds, i) ELSE w.delete_inds,
          cleaned_data |-> w.cleaned_data \o cp.out,
          created      |-> IF cp.out # <<>> THEN Append(w.created, Len(cp.out))
                           ELSE w.created,
          time         |-> IF cp.out # <<>>
                           THEN Min(w.time, cp.out[Len(cp.out)].meas_time)
                           ELSE w.time ])

\* The end of one iteration: create_placeholders(element) has returned cp.
ML_expand(i, w, stale, element, cp) ==
    ML_walk(i + 1,
        [ data         |-> [w.data EXCEPT ![i] = cp.element],
          output_inds  |-> IF ~stale /\ ~is_placeholder(element)
                           THEN Append(w.output_inds, i) ELSE w.output_inds,
          discard_inds |-> IF stale /\ ~is_placeholder(element)
                           THEN Append(w.discard_inds, i) ELSE w.discard_inds,
          delete_inds  |-> IF stale /\ ~is_placeholder(element)
                           THEN Append(w.delete_inds, i) ELSE w.delete_inds,
          cleaned_data |-> w.cleaned_data \o cp.out,
          created      |-> IF cp.out # <<>> THEN Append(w.created, Len(cp.out))
                           ELSE w.created,
          time         |-> IF cp.out # <<>>
                           THEN Min(w.time, cp.out[Len(cp.out)].meas_time)
                           ELSE w.time ])

\* An iteration that stops at a pending placeholder only, never at a sample
\* measured after `time`.
ML_visit_no_break(i, w, stale, element) ==
    IF ~stale /\ is_placeholder(element) /\ element.receipt_time >= w.time
    THEN w
    ELSE ML_expand(i, w, stale, element,
                   create_placeholders(element, MAX_INSERTED_PLACEHOLDERS))

\* An iteration that stops at a sample measured after `time` only, never at
\* a pending placeholder.
ML_visit_past_placeholders(i, w, stale, element) ==
    IF ~stale /\ ~is_placeholder(element) /\ element.meas_time > w.time
    THEN w
    ELSE ML_expand(i, w, stale, element,
                   create_placeholders(element, MAX_INSERTED_PLACEHOLDERS))

\* One iteration, on the element at position i.
ML_visit(i, w, stale, element) ==
    IF /\ ~stale
       /\ IF is_placeholder(element) THEN element.receipt_time >= w.time
          ELSE element.meas_time > w.time
    THEN w
    ELSE ML_expand(i, w, stale, element,
                   create_placeholders(element, MAX_INSERTED_PLACEHOLDERS))

\* The loop's state is bound once per iteration (as v).
ML_walk(i, w) ==
    CHOOSE after \in { IF i > Len(v.data) THEN v
                       ELSE ML_visit(i, v, ML_is_stale(v.data[i]), v.data[i]) : v \in {w} } : TRUE

\* A batching that never waits for a placeholder.
runBatching_no_wait(q, ready_for_output_ids, time) == ready_for_output_ids

\* runBatching(ready_for_output_ids, time) on the queue q.
runBatching(q, ready_for_output_ids, time) ==
    LET batch_start_time == q[Head(ready_for_output_ids)].meas_time
        found_placeholder ==
            \E idx \in ready_for_output_ids[Len(ready_for_output_ids)]..Len(q) :
                /\ is_placeholder(q[idx])
                /\ q[idx].earliest_estimated_meas_time - batch_start_time
                       < ML_Params.batch.max_delta
                /\ q[idx].latest_receipt_time > time
    IN  IF found_placeholder THEN <<>> ELSE ready_for_output_ids

\* std::numeric_limits<double>::max(), the tau of a fresh MatchMapEntry: above
\* every time difference.
TauMax == 1000000

\* matching_map[id]: a missing entry is created value-initialized, idx the
\* first position of _data and tau = TauMax.
MapAccess(matching_map, id) ==
    IF id \in DOMAIN matching_map THEN matching_map
    ELSE [k \in DOMAIN matching_map \cup {id} |->
            IF k = id THEN [idx |-> 1, tau |-> TauMax] ELSE matching_map[k]]

\* First loop of MinimalLatencyBuffer::runMatching, over ready_for_output_ids
\* from out_idx on: matching_map and latest_data_idx.
RECURSIVE ML_candidates(_, _, _, _, _, _, _)

\* A candidate loop that keeps, of each source, the last fitting ready sample.
ML_candidates_last(q, ready, out_idx, oldest_ref_meas_time, next_ref_meas_time, matching_map, latest_data_idx) ==
    IF out_idx > Len(ready)
    THEN [matching_map |-> matching_map, latest_data_idx |-> latest_data_idx]
    ELSE LET idx == ready[out_idx]
             element == q[idx]
             current_diff == Abs(element.meas_time - oldest_ref_meas_time)
             next_diff == Abs(element.meas_time - next_ref_meas_time)
             accessed == MapAccess(matching_map, element.id)
         IN  IF element.id = ML_Params.match.reference_stream
             THEN ML_candidates(q, ready, out_idx + 1, oldest_ref_meas_time,
                                next_ref_meas_time, matching_map, idx)
             ELSE IF next_diff < current_diff
             THEN [matching_map |-> matching_map, latest_data_idx |-> idx]
             ELSE ML_candidates(q, ready, out_idx + 1, oldest_ref_meas_time, next_ref_meas_time,
                      [accessed EXCEPT ![element.id] = [idx |-> idx, tau |-> current_diff]],
                      idx)

ML_candidates(q, ready, out_idx, oldest_ref_meas_time, next_ref_meas_time, matching_map, latest_data_idx) ==
    IF out_idx > Len(ready)
    THEN [matching_map |-> matching_map, latest_data_idx |-> latest_data_idx]
    ELSE LET idx == ready[out_idx]
             element == q[idx]
             current_diff == Abs(element.meas_time - oldest_ref_meas_time)
             next_diff == Abs(element.meas_time - next_ref_meas_time)
             accessed == MapAccess(matching_map, element.id)
         IN  IF element.id = ML_Params.match.reference_stream
             THEN ML_candidates(q, ready, out_idx + 1, oldest_ref_meas_time,
                                next_ref_meas_time, matching_map, idx)
             ELSE IF next_diff < current_diff
             THEN [matching_map |-> matching_map, latest_data_idx |-> idx]
             ELSE ML_candidates(q, ready, out_idx + 1, oldest_ref_meas_time, next_ref_meas_time,
                      IF current_diff < accessed[element.id].tau
                      THEN [accessed EXCEPT ![element.id] = [idx |-> idx, tau |-> current_diff]]
                      ELSE accessed,
                      idx)

\* Second loop of runMatching, over _data from position idx on: matching_map
\* (entries may be created) and found_better_sample.
RECURSIVE ML_waiting(_, _, _, _, _)
ML_waiting(q, idx, oldest_ref_meas_time, next_ref_meas_time, matching_map) ==
    IF idx > Len(q)
    THEN [matching_map |-> matching_map, found_better_sample |-> FALSE]
    ELSE LET element == q[idx]
             current_diff == Abs(element.meas_time - oldest_ref_meas_time)
             next_diff == Abs(element.meas_time - next_ref_meas_time)
             accessed == MapAccess(matching_map, element.id)
         IN  IF element.id = ML_Params.match.reference_stream
             THEN ML_waiting(q, idx + 1, oldest_ref_meas_time, next_ref_meas_time, matching_map)
             ELSE IF next_diff < current_diff
             THEN [matching_map |-> matching_map, found_better_sample |-> FALSE]
             ELSE IF current_diff < accessed[element.id].tau
             THEN [matching_map |-> accessed, found_better_sample |-> TRUE]
             ELSE ML_waiting(q, idx + 1, oldest_ref_meas_time, next_ref_meas_time, accessed)

\* A matching that returns the oldest ready reference sample on its own.
ML_runMatching_reference_only(q, ready_for_output_ids) ==
    LET refs == RefsIn(q, ready_for_output_ids, ML_Params.match.reference_stream)
    IN  [ tuple |-> IF refs = <<>> THEN {} ELSE {refs[1]}, delete_inds |-> <<>> ]

\* MinimalLatencyBuffer::runMatching(ready_for_output_ids) on the queue q: the
\* positions of the tuple (a set: the map's iteration order is open) and
\* delete_inds.
ML_runMatching(q, ready_for_output_ids) ==
    LET R == ML_Params.match.reference_stream
        refs == RefsIn(q, ready_for_output_ids, R)
    IN  IF refs = <<>> THEN [tuple |-> {}, delete_inds |-> <<>>]
        ELSE
        LET ref_idx == refs[1]
            oldest_ref_meas_time == q[ref_idx].meas_time
            next_ref_meas_time ==
                IF Len(refs) > 1 THEN q[refs[2]].meas_time
                ELSE IF R \in DOMAIN source_infos
                THEN oldest_ref_meas_time + period(source_infos[R])
                ELSE Epoch
            c == ML_candidates(q, ready_for_output_ids, 1, oldest_ref_meas_time,
                               next_ref_meas_time,
                               [id \in {R} |-> [idx |-> ref_idx, tau |-> 0]], 1)
            s == ML_waiting(q, c.latest_data_idx + 1, oldest_ref_meas_time,
                            next_ref_meas_time, c.matching_map)
        IN  IF Cardinality(DOMAIN s.matching_map) # Cardinality(DOMAIN source_infos)
            THEN [tuple |-> {}, delete_inds |-> <<ref_idx>>]
            ELSE IF s.found_better_sample
            THEN [tuple |-> {}, delete_inds |-> <<>>]
            ELSE [ tuple |-> { s.matching_map[id].idx : id \in DOMAIN s.matching_map },
                   delete_inds |-> <<>> ]

\* A reset that keeps the estimators.
ML_reset_keeps_estimators ==
    /\ kind = "MinimalLatency" /\ ~crashed
    /\ data' = <<>>
    /\ buffer_time' = Epoch
    /\ current_time' = Epoch
    /\ returned' = NoneReturned
    /\ last_out' = <<>>
    /\ ret' = [Ret("reset", "", 0, 0, 0) EXCEPT !.buffer_time = Epoch]
    /\ Frame /\ UNCHANGED << source_infos, crashed, npush >>

\* MinimalLatencyBuffer::reset()
ML_reset ==
    /\ kind = "MinimalLatency" /\ ~crashed
    /\ data' = <<>>
    /\ buffer_time' = Epoch
    /\ current_time' = Epoch
    /\ source_infos' = <<>>
    /\ returned' = NoneReturned
    /\ last_out' = <<>>
    /\ ret' = [Ret("reset", "", 0, 0, 0) EXCEPT !.buffer_time = Epoch]
    /\ Frame /\ UNCHANGED << crashed, npush >>

\* A search that counts the missed placeholders and finds no best fit.
BestFit_never(i, id, meas_time, b) ==
    [ b EXCEPT !.num_missed_placeholder =
        Cardinality({ k \in 1..Len(data) :
            /\ data[k].id = id /\ is_placeholder(data[k])
            /\ data[k].meas_time < meas_time }) ]

\* The search of push for the best fitting placeholder of source id, from
\* position i on: [min, best_ind (<<>> or <<position>>), num_missed_placeholder].
RECURSIVE BestFit(_, _, _, _)
BestFit(i, id, meas_time, b) ==
    IF i > Len(data) THEN b
    ELSE LET sample == data[i]
             mine == sample.id = id /\ is_placeholder(sample)
             dist == Abs(sample.meas_time - meas_time)
         IN  BestFit(i + 1, id, meas_time,
               [ num_missed_placeholder |->
                     IF mine /\ sample.meas_time < meas_time
                     THEN b.num_missed_placeholder + 1 ELSE b.num_missed_placeholder,
                 min      |-> IF mine /\ dist < b.min THEN dist ELSE b.min,
                 best_ind |-> IF mine /\ dist < b.min THEN <<i>> ELSE b.best_ind ])

\* A sweep that takes the older samples of the source with its placeholders.
Sweep_samples_too(q, id, meas_time) ==
    SelectSeq(q, LAMBDA sample : ~(sample.id = id /\ sample.meas_time < meas_time))

\* A sweep that spares the placeholders appended last (those created by the
\* push itself).
Sweep_old_only(q, id, meas_time) ==
    LET n == Len(data)
    IN  SelectSeq(SubSeq(q, 1, n), LAMBDA sample :
            ~(sample.id = id /\ is_placeholder(sample) /\ sample.meas_time < meas_time))
        \o SubSeq(q, n + 1, Len(q))

\* "delete older no longer needed placeholders" in push.
Sweep(q, id, meas_time) ==
    SelectSeq(q, LAMBDA sample :
        ~(sample.id = id /\ is_placeholder(sample) /\ sample.meas_time < meas_time))

\* A reset test that also fires when the jump equals the threshold.
ML_jumped_back_or_equal(receipt_time) ==
    current_time - receipt_time >= ML_Params.reset_threshold

\* push: the receipt time jumped further into the past than reset_threshold.
ML_jumped_back(receipt_time) ==
    current_time - receipt_time > ML_Params.reset_threshold

\* A clock that follows every admitted push, also backwards.
ML_clock_set(receipt_time) == receipt_time

\* push: _current_time = std::max(_current_time, receipt_time).
ML_clock(receipt_time) == Max(current_time, receipt_time)

\* MinimalLatencyBuffer::push(id, receipt_time, meas_time, data)
ML_push(id, receipt_time, meas_time) ==
    /\ kind = "MinimalLatency" /\ ~crashed
    /\ npush < MaxDesyncPush /\ Len(data) <= MaxLen
    /\ npush' = npush + 1
    /\ IF ML_jumped_back(receipt_time)
       THEN /\ data' = <<>>
            /\ buffer_time' = Epoch
            /\ current_time' = Epoch
            /\ source_infos' = <<>>
            /\ returned' = NoneReturned
            /\ last_out' = <<>>
            /\ ret' = [Ret("push", "RESET", receipt_time, id, meas_time) EXCEPT !.buffer_time = Epoch]
       ELSE
       LET new_element ==
               TimeData(id, meas_time, receipt_time, meas_time, receipt_time, <<npush + 1>>)
           known == id \in DOMAIN source_infos
           estimator == source_infos[id]
           b == BestFit(1, id, meas_time,
                        [ min |-> HalfOf(period(estimator)), best_ind |-> <<>>,
                          num_missed_placeholder |-> 0 ])
           best == b.best_ind # <<>>
           num_missed_placeholder ==
               IF best /\ b.num_missed_placeholder > 0
                       /\ meas_time > data[b.best_ind[1]].meas_time
               THEN b.num_missed_placeholder - 1 ELSE b.num_missed_placeholder
           element ==
               IF best
               THEN [ data[b.best_ind[1]] EXCEPT !.data = <<npush + 1>>,
                                                 !.meas_time = meas_time,
                                                 !.receipt_time = receipt_time ]
               ELSE new_element
           cp == create_placeholders(element, MAX_INSERTED_PLACEHOLDERS)
           inserted ==
               IF best
               THEN [data EXCEPT ![b.best_ind[1]] = cp.element] \o cp.out
               ELSE (data \o cp.out) \o <<cp.element>>
           updated ==
               IF ~isInitialized(estimator) THEN update(estimator, receipt_time, meas_time, 0)
               ELSE IF best
               THEN update(estimator, receipt_time, meas_time, num_missed_placeholder)
               ELSE [threw |-> FALSE, est |-> updateLatencyOnly(estimator, receipt_time, meas_time)]
           unsorted == IF known THEN Sweep(inserted, id, meas_time) ELSE Append(data, new_element)
       IN  /\ current_time' = ML_clock(receipt_time)
           /\ source_infos' =
                  IF known
                  THEN [source_infos EXCEPT ![id] = updated.est]
                  ELSE [k \in DOMAIN source_infos \cup {id} |->
                          IF k = id THEN Estimator(receipt_time, meas_time) ELSE source_infos[k]]
           /\ \E sorted \in std_sort(unsorted) : data' = sorted
           /\ ret' = [ Ret("push", "OK", receipt_time, id, meas_time) EXCEPT
                         !.output_inds = IF known THEN b.best_ind ELSE <<>>,
                         !.created = IF known /\ cp.out # <<>> THEN <<Len(cp.out)>>
                                     ELSE <<>> ]
           /\ UNCHANGED << buffer_time, returned, last_out >>
    /\ Frame /\ UNCHANGED << crashed >>

\* A pop that takes every time as in order.
ML_out_of_order_never(time) == FALSE

\* pop: push or pop have already been called with a later time.
ML_out_of_order(time) == time < current_time

\* MinimalLatencyBuffer::pop(time)
ML_pop(time) ==
    /\ kind = "MinimalLatency" /\ ~crashed
    /\ Len(data) <= MaxLen
    /\ IF ML_out_of_order(time)
       THEN /\ ret' = Ret("pop", "REJECTED", time, 0, 0)
            /\ UNCHANGED << data, buffer_time, returned, last_out >>
       ELSE
       \E w \in { ML_walk(1, [ data |-> data, output_inds |-> <<>>, discard_inds |-> <<>>,
                                delete_inds |-> <<>>, cleaned_data |-> <<>>,
                                created |-> <<>>, time |-> time ]) } :
       LET policy == w.output_inds # <<>>
           m == ML_runMatching(w.data, w.output_inds)
           tuple == IF mode = "MATCH" /\ policy THEN m.tuple ELSE {}
           matched == IF mode = "MATCH" /\ policy THEN m.delete_inds ELSE <<>>
           discard_inds == w.discard_inds \o matched
       IN  \E order \in Orders(tuple) :
           LET output_inds ==
                   IF ~policy THEN <<>>
                   ELSE IF mode = "BATCH" THEN runBatching(w.data, w.output_inds, w.time)
                   ELSE IF mode = "MATCH" THEN order
                   ELSE w.output_inds
               output == ElementsAt(w.data, output_inds)
               discarded_data == ElementsAt(w.data, discard_inds)
               delete_inds == (w.delete_inds \o matched) \o output_inds
               new_buffer_time ==
                   IF output # <<>> THEN output[Len(output)].meas_time ELSE buffer_time
           IN  /\ \E sorted \in std_sort(remove_indices(w.data, delete_inds) \o w.cleaned_data) :
                      data' = sorted
               /\ buffer_time' = new_buffer_time
               /\ returned' = CountReturned(CountReturned(returned, output), discarded_data)
               /\ last_out' = IF output # <<>> THEN <<new_buffer_time>> ELSE last_out
               /\ ret' = [ Ret("pop", "", time, 0, 0) EXCEPT
                             !.buffer_time = new_buffer_time,
                             !.data = output,
                             !.discarded_data = discarded_data,
                             !.ready_inds = w.output_inds,
                             !.output_inds = output_inds,
                             !.discard_inds = discard_inds,
                             !.delete_inds = delete_inds,
                             !.clamped_time = w.time,
                             !.created = w.created ]
    /\ Frame /\ UNCHANGED << source_infos, current_time, crashed, npush >>

\* ------------------------------------------------------------ specification
\* A freshly constructed buffer of either class, in any mode.
Init ==
    /\ kind \in {"FixedLag", "MinimalLatency"}
    /\ mode \in Modes
    /\ fixed_lag_delay \in
           IF kind = "FixedLag" THEN { FL_FixedLagDelay(d, mode) : d \in DelayMeans } ELSE {0}
    /\ data = <<>>
    /\ source_infos = <<>>
    /\ buffer_time = Epoch
    /\ current_time = Epoch
    /\ crashed = FALSE
    /\ npush = 0
    /\ returned = NoneReturned
    /\ last_out = <<>>
    /\ ret = Ret("init", "", 0, 0, 0)

\* The inputs callers are modelled to pass.  A MinimalLatencyBuffer is pushed
\* at its clock or one step later, the sample measured a latency of its
\* source before (source 1 delivers at once, source 2 with jitter and with a
\* clock that may run ahead, so that a sample can be stamped later than it is
\* received) and later than the source's previous sample; one further receipt_time lies far
\* enough back to force a reset.  It is popped at any time.
\* A FixedLagBuffer takes any meas_time after the epoch (the sample received
\* when measured) and is popped at the times at which such a sample is due;
\* one push of source 1 is received before the epoch and forces a reset.
ML_ReceiptTimes ==
    { t \in Times : \/ t \in {current_time, current_time + 1}
                    \/ t = current_time - ML_Params.reset_threshold - 1 }
Latencies == [id \in Sources |-> IF id = 1 THEN {0} ELSE {-1, 0, 1}]
ML_MeasTimes(id, receipt_time) ==
    IF ML_jumped_back(receipt_time) THEN {receipt_time}
    ELSE { t \in Times : /\ receipt_time - t \in Latencies[id]
                         /\ id \in DOMAIN source_infos
                                => t > source_infos[id].last_meas_time }
FL_MeasTimes == (Epoch + 1)..MaxTime
FL_ReceiptTimes(id, meas_time) ==
    {meas_time} \cup (IF id = 1 /\ meas_time = Epoch + 1
                      THEN {Epoch - FL_Params.reset_threshold - 1} ELSE {})
FL_PopTimes == { t + fixed_lag_delay : t \in FL_MeasTimes }

NextFL ==
    \/ \E id \in Sources, meas_time \in FL_MeasTimes :
           \E receipt_time \in FL_ReceiptTimes(id, meas_time) :
               npush < MaxPush /\ FL_push(id, receipt_time, meas_time)
    \/ \E time \in FL_PopTimes : FL_pop(time)
    \/ FL_reset

NextML ==
    \/ \E id \in Sources, receipt_time \in ML_ReceiptTimes :
           \E meas_time \in ML_MeasTimes(id, receipt_time) :
               npush < MaxPush /\ ML_push(id, receipt_time, meas_time)
    \/ \E time \in Times : ML_pop(time)
    \/ ML_reset

Next == NextFL \/ NextML

\* Either buffer, the FixedLagBuffer alone, the MinimalLatencyBuffer alone.
Spec == Init /\ [][Next]_vars
InitFL == Init /\ kind = "FixedLag"
InitML == Init /\ kind = "MinimalLatency"
SpecFL == InitFL /\ [][NextFL]_vars
SpecML == InitML /\ [][NextML]_vars

\* A MinimalLatencyBuffer whose source 1 delivers up to MaxSame samples that
\* all carry the epoch as receipt_time and meas_time (a period of zero).
NextSame ==
    \/ npush < MaxSame /\ ML_push(1, Epoch, Epoch)
    \/ \E time \in Times : ML_pop(time)
    \/ ML_reset

InitSame == InitML /\ mode \in {"SINGLE", "BATCH"}
SpecSame == InitSame /\ [][NextSame]_vars

\* A MinimalLatencyBuffer that takes up to MaxLate pushes, some of them
\* received late: before current_time, by reset_threshold or by one step more.
LateReceiptTimes ==
    { t \in Times : \/ t \in {current_time, current_time + 1}
                    \/ t \in {current_time - ML_Params.reset_threshold,
                              current_time - ML_Params.reset_threshold - 1} }

NextLate ==
    \/ /\ npush < MaxLate
       /\ \E id \in Sources, receipt_time \in LateReceiptTimes :
              \E meas_time \in ML_MeasTimes(id, receipt_time) : ML_push(id, receipt_time, meas_time)
    \/ \E time \in Times : ML_pop(time)
    \/ ML_reset

SpecLate == InitML /\ [][NextLate]_vars

\* A FixedLagBuffer in Match mode without lag, fed with samples measured
\* well after the epoch, so that a sample is nearer to its reference sample
\* than to the epoch.
FarTimes == MaxTime..(MaxTime + 2)

NextFar ==
    \/ \E id \in Sources, meas_time \in FarTimes :
           npush < MaxPush /\ FL_push(id, meas_time, meas_time)
    \/ \E time \in FarTimes : FL_pop(time)
    \/ FL_reset

InitFar == InitFL /\ mode = "MATCH" /\ fixed_lag_delay = 0
SpecFar == InitFar /\ [][NextFar]_vars

\* A FixedLagBuffer in Batch mode whose samples span more than batch.max_delta.
WideTimes == (Epoch + 1)..(Epoch + 1 + FL_Params.batch.max_delta)

NextWide ==
    \/ \E id \in Sources, meas_time \in WideTimes :
           npush < MaxPush /\ FL_push(id, meas_time, meas_time)
    \/ \E time \in WideTimes : FL_pop(time + fixed_lag_delay)
    \/ FL_reset

InitWide == InitFL /\ mode = "BATCH"
SpecWide == InitWide /\ [][NextWide]_vars

\* A FixedLagBuffer in Match mode without lag that is fed by three sources,
\* one more than match.num_streams: one sample per time step, from any of the
\* sources.  It is never reset.
ThreeSources == Sources \cup {3}
ThreeTimes == (Epoch + 1)..(Epoch + MaxMatchPush)

NextThree ==
    \/ \E id \in ThreeSources : FL_push(id, Epoch + npush + 1, Epoch + npush + 1)
    \/ \E time \in ThreeTimes : FL_pop(time)

SpecThree == InitFar /\ [][NextThree]_vars

\* A MinimalLatencyBuffer in Single mode that is never reset, fed in order by
\* sources whose samples come at irregular intervals (the estimated period gets
\* a standard deviation), and popped again and again at FarNow, a time after
\* the latest_receipt_time of every placeholder expected up to the last sample.
IrregularTimes == {0, 1, MaxTime + 2}
FarNow == MaxTime + 2 + 2 * ML_Params.max_total_wait_time

NextLive ==
    \/ \E id \in Sources, meas_time \in IrregularTimes :
           /\ npush < MaxPush /\ meas_time >= current_time
           /\ id \in DOMAIN source_infos => meas_time > source_infos[id].last_meas_time
           /\ ML_push(id, meas_time, meas_time)
    \/ ML_pop(FarNow)

\* The caller's loop calls pop for ever: a pop that can act will act.
InitLive == InitML /\ mode = "SINGLE"
SpecLive == InitLive /\ [][NextLive]_vars /\ WF_vars(ML_pop(FarNow))

\* A MinimalLatencyBuffer that is never reset, fed in order by sources whose
\* samples come at irregular intervals, a sample one step after the last of
\* IrregularTimes included: a push meets an estimator whose period has a
\* standard deviation.  It is popped at any of these times.
JitterTimes == IrregularTimes \cup {MaxTime + 3}

NextJitter ==
    \/ \E id \in Sources, meas_time \in JitterTimes :
           /\ npush < MaxPush /\ meas_time >= current_time
           /\ id \in DOMAIN source_infos => meas_time > source_infos[id].last_meas_time
           /\ ML_push(id, meas_time, meas_time)
    \/ \E time \in JitterTimes : ML_pop(time)

SpecJitter == InitML /\ [][NextJitter]_vars

\* A MinimalLatencyBuffer that is never reset, fed in order by sources with a
\* period of FitPeriod; a sample may come one step early or in time.
FitPeriod == 2 * MaxTime
FitTimes == {0, FitPeriod, 2 * FitPeriod, 3 * FitPeriod - 1, 3 * FitPeriod}

NextFit ==
    \/ \E id \in Sources, meas_time \in FitTimes :
           /\ npush < MaxPush /\ meas_time >= current_time
           /\ id \in DOMAIN source_infos => meas_time > source_infos[id].last_meas_time
           /\ ML_push(id, meas_time, meas_time)
    \/ \E time \in FitTimes : ML_pop(time)

SpecFit == InitML /\ [][NextFit]_vars

\* A MinimalLatencyBuffer in Single mode fed by source 1 alone, up to
\* MaxDesyncPush samples: DesyncPeriod apart, but for the last three, which may
\* come a step early.  It is popped at its clock or two periods later, and
\* never reset.
DesyncPeriod == 3 * MaxTime

NextDesync ==
    \/ \E d \in {DesyncPeriod - 1, DesyncPeriod} :
           /\ d # DesyncPeriod => npush >= MaxDesyncPush - 3
           /\ \E meas_time \in { IF 1 \in DOMAIN source_infos
                                  THEN source_infos[1].last_meas_time + d ELSE Epoch } :
                  ML_push(1, meas_time, meas_time)
    \/ \E wait \in {0, 2 * DesyncPeriod} : ML_pop(current_time + wait)

SpecDesync == InitLive /\ [][NextDesync]_vars

\* ---------------------------------------------------------------- estimator
\* One StreamCharacteristicsEstimator on its own, as the unit test drives it:
\* it is kept as source_infos[1]; ret names the last call, the estimator before
\* it, how many update() calls have returned normally since construction, and
\* the stream (period, latency) a periodic source was built with.
EstRet(op, stream) ==
    [ op |-> op, result |-> "OK", before |-> <<>>,
      current_time_ |-> 0, meas_time |-> 0, num_missing |-> 0,
      normal_updates |-> 0, stream |-> stream ]

\* try { estimator.update(current_time, meas_time, num_missing) } catch (...)
Est_update(current_time_, meas_time, num_missing) ==
    /\ kind = "Estimator" /\ npush < MaxUpdates
    /\ LET e == source_infos[1]
           u == update(e, current_time_, meas_time, num_missing)
       IN  /\ source_infos' = [source_infos EXCEPT ![1] = u.est]
           /\ ret' = [ ret EXCEPT !.op = "update",
                                  !.result = IF u.threw THEN "THROWN" ELSE "OK",
                                  !.before = e,
                                  !.current_time_ = current_time_,
                                  !.meas_time = meas_time,
                                  !.num_missing = num_missing,
                                  !.normal_updates = @ + (IF u.threw THEN 0 ELSE 1) ]
    /\ npush' = npush + 1
    /\ UNCHANGED << kind, mode, fixed_lag_delay, data, buffer_time, current_time,
                    crashed, returned, last_out >>

\* estimator.updateLatencyOnly(current_time, meas_time)
Est_updateLatencyOnly(current_time_, meas_time) ==
    /\ kind = "Estimator" /\ npush < MaxUpdates
    /\ LET e == source_infos[1]
       IN  /\ source_infos' = [source_infos EXCEPT ![1] = updateLatencyOnly(e, current_time_, meas_time)]
           /\ ret' = [ ret EXCEPT !.op = "updateLatencyOnly",
                                  !.result = "OK",
                                  !.before = e,
                                  !.current_time_ = current_time_,
                                  !.meas_time = meas_time,
                                  !.num_missing = 0 ]
    /\ npush' = npush + 1
    /\ UNCHANGED << kind, mode, fixed_lag_delay, data, buffer_time, current_time,
                    crashed, returned, last_out >>

\* Estimator estimator(Time(latency), Time(0)) and nothing else.
EstConstructed(latency_, stream) ==
    /\ kind = "Estimator"
    /\ mode = "SINGLE"
    /\ fixed_lag_delay = 0
    /\ data = <<>>
    /\ source_infos = [id \in {1} |-> Estimator(Epoch + latency_, Epoch)]
    /\ buffer_time = Epoch
    /\ current_time = Epoch
    /\ crashed = FALSE
    /\ npush = 0
    /\ returned = NoneReturned
    /\ last_out = <<>>
    /\ ret = EstRet("construct", stream)

\* The calls the estimator is modelled to get: a sample measured one or two
\* steps after the last one and reported with no or two measurements missing
\* in between, each received with the latency (0 or 1) the estimator was
\* constructed with.
EstSteps == {1, 2}
EstLatencies == {0, 1}
EstMissing == {0, 2}

\* The latency of the sample the estimator saw last.
LastLatency == source_infos[1].current_time - source_infos[1].last_meas_time

InitEst == \E l \in EstLatencies : EstConstructed(l, <<>>)

NextEst ==
    \/ \E step \in EstSteps, k \in EstMissing :
           LET meas_time == source_infos[1].last_meas_time + step
           IN  /\ meas_time <= MaxEstTime
               /\ Est_update(meas_time + LastLatency, meas_time, k)
    \/ \E step \in EstSteps :
           LET meas_time == source_infos[1].last_meas_time + step
           IN  /\ meas_time <= MaxEstTime
               /\ Est_updateLatencyOnly(meas_time + LastLatency, meas_time)

SpecEst == InitEst /\ [][NextEst]_vars

\* A perfectly periodic source of constant latency, as in TEST(Estimator,
\* MissingMeasurements): every sample is measured (k + 1) periods after the
\* last one and reported with k measurements missing, k = 0 for the first two.
StreamPeriods == {1, 2, 3}
StreamLatencies == {-1, 0, 2}
StreamMissing == {0, 1, 2}

InitPeriodic ==
    \E d \in StreamPeriods, l \in StreamLatencies : EstConstructed(l, [period |-> d, latency |-> l])

NextPeriodic ==
    \E k \in StreamMissing :
        LET meas_time == source_infos[1].last_meas_time + (k + 1) * ret.stream.period
        IN  /\ source_infos[1].num_updates < 2 => k = 0
            /\ Est_update(meas_time + ret.stream.latency, meas_time, k)

SpecPeriodic == InitPeriodic /\ [][NextPeriodic]_vars

\* ------------------------------------------------------------------ claims
MeasTimesOf(s) == [i \in 1..Len(s) |-> s[i].meas_time]
NonDecreasing(t) == \A i \in 1..(Len(t) - 1) : t[i] <= t[i + 1]
IsPop == ret.op = "pop"
IsReset == ret.op = "reset" \/ (ret.op = "push" /\ ret.result = "RESET")
PlaceholdersOf(s) == { i \in 1..Len(data) : is_placeholder(data[i]) /\ data[i].id = s }

\* C1: MinimalLatencyBuffer, Single and Batch mode: the samples a pop returns
\* in `data` do not decrease in meas_time, and the first of them is not older
\* than the last sample any earlier pop since the last reset returned; so the
\* `data` vectors of all pops, concatenated, never decrease in meas_time.
C1_OutputInSequence ==
    [][ (kind = "MinimalLatency" /\ mode \in {"SINGLE", "BATCH"} /\ ret'.op = "pop")
            => NonDecreasing(last_out \o MeasTimesOf(ret'.data)) ]_vars

\* A pop returns a sample newer than the last one an earlier pop returned.
C1_Witness ==
    /\ kind = "MinimalLatency" /\ mode \in {"SINGLE", "BATCH"} /\ IsPop
    /\ ret.buffer_time_before > Epoch
    /\ ret.data # <<>> /\ ret.data[1].meas_time > ret.buffer_time_before

\* C2 as stated: MinimalLatencyBuffer, every mode: every sample a pop returns
\* in `data` has a meas_time strictly greater than buffer_time was when the
\* pop started.
C2_ReleasedAfterBufferTime ==
    (kind = "MinimalLatency" /\ IsPop) =>
        \A i \in 1..Len(ret.data) : ret.data[i].meas_time > ret.buffer_time_before

\* C2 amended: MinimalLatencyBuffer, every mode: every sample a pop returns in
\* `data` has a meas_time greater than or equal to the value buffer_time had
\* when the pop started; a queued sample whose meas_time is less than
\* buffer_time is never released.
C2_ReleasedNotBeforeBufferTime ==
    (kind = "MinimalLatency" /\ IsPop) =>
        \A i \in 1..Len(ret.data) : ret.data[i].meas_time >= ret.buffer_time_before

\* After an earlier release, a pop returns a sample measured exactly at
\* buffer_time.
C2_Witness ==
    /\ kind = "MinimalLatency" /\ IsPop
    /\ ret.buffer_time_before > Epoch
    /\ \E i \in 1..Len(ret.data) : ret.data[i].meas_time = ret.buffer_time_before

\* C3: both buffers, every mode: buffer_time after a pop is greater than or
\* equal to buffer_time before that pop.
C3_BufferTimeNotLowered ==
    IsPop => ret.buffer_time >= ret.buffer_time_before

\* C4: both buffers: after every push (OK or RESET) and after every pop (a
\* rejected one included) the queue does not decrease in meas_time.
C4_QueueSorted ==
    ret.op \in {"push", "pop"} => NonDecreasing(MeasTimesOf(data))

\* A push has put a sample in front of a newer queued element.
C4_Witness ==
    /\ ret.op = "push" /\ ret.result = "OK"
    /\ Len(data) >= 2 /\ ret.meas_time < data[Len(data)].meas_time

\* C5: MinimalLatencyBuffer, every mode: every pushed sample has been returned
\* at most once, counting the `data` and `discarded_data` of all pops.
C5_ReturnedAtMostOnce ==
    kind = "MinimalLatency" => \A p \in Payloads : returned[p] <= 1

\* A pop returns one sample in `data` and another in `discarded_data`.
C5_Witness ==
    /\ kind = "MinimalLatency" /\ IsPop
    /\ ret.data # <<>> /\ ret.discarded_data # <<>>

\* C6: FixedLagBuffer, every mode: within one pop the positions used for
\* `data` and for `discarded_data` are disjoint and the index list passed to
\* remove_indices repeats no index.
C6_IndexSetsDisjoint ==
    (kind = "FixedLag" /\ IsPop) =>
        /\ SeqToSet(ret.output_inds) \cap SeqToSet(ret.discard_inds) = {}
        /\ ~HasDuplicate(ret.delete_inds)

\* C7: MinimalLatencyBuffer, every mode: every sample pop(now) returns in
\* `data` has meas_time less than or equal to now.
C7_NotFromTheFuture ==
    (kind = "MinimalLatency" /\ IsPop) =>
        \A i \in 1..Len(ret.data) : ret.data[i].meas_time <= ret.time

\* A pop returns a sample while a sample measured after `now` stays queued.
C7_Witness ==
    /\ kind = "MinimalLatency" /\ IsPop /\ ret.data # <<>>
    /\ \E j \in 1..Len(data) : ~is_placeholder(data[j]) /\ data[j].meas_time > ret.time

\* C8 as stated: FixedLagBuffer with a non-negative fixed lag, every mode:
\* every sample pop(now) returns in `data` has meas_time less than or equal
\* to now.
C8_NotFromTheFuture ==
    (kind = "FixedLag" /\ fixed_lag_delay >= 0 /\ IsPop) =>
        \A i \in 1..Len(ret.data) : ret.data[i].meas_time <= ret.time

\* C8 amended: FixedLagBuffer with a non-negative fixed lag: a sample pop(now)
\* returns in `data` has meas_time less than or equal to now if the mode is
\* Single, if the mode is Batch and batch.max_delta is at most the fixed lag,
\* or if the mode is Match and the sample is of the reference stream.
C8_DueNotFromTheFuture ==
    (kind = "FixedLag" /\ fixed_lag_delay >= 0 /\ IsPop) =>
        \A i \in 1..Len(ret.data) :
            (\/ mode = "SINGLE"
             \/ mode = "BATCH" /\ FL_Params.batch.max_delta <= fixed_lag_delay
             \/ mode = "MATCH" /\ ret.data[i].id = FL_Params.match.reference_stream)
            => ret.data[i].meas_time <= ret.time

\* A Match pop returns a tuple whose reference sample is due and whose other
\* member was measured after `now`.
C8_Witness ==
    /\ kind = "FixedLag" /\ fixed_lag_delay >= 0 /\ IsPop /\ mode = "MATCH"
    /\ \E i, j \in 1..Len(ret.data) :
           /\ ret.data[i].id = FL_Params.match.reference_stream
           /\ ret.data[i].meas_time <= ret.time
           /\ ret.data[j].meas_time > ret.time

\* C9 as stated: MinimalLatencyBuffer: after every call, the queue holds at
\* most 10 placeholders of every source.
C9_FewPlaceholdersQueued ==
    kind = "MinimalLatency" => \A s \in Sources : Cardinality(PlaceholdersOf(s)) <= 10

\* C9 amended: MinimalLatencyBuffer: every single call of create_placeholders
\* (one per push, one per element a pop visits) returns at most 10
\* placeholders.
C9_FewPlaceholdersCreated ==
    kind = "MinimalLatency" => \A k \in 1..Len(ret.created) : ret.created[k] <= 10

\* A pop in which create_placeholders returned 10 placeholders for each of
\* two elements.
C9_Witness ==
    /\ kind = "MinimalLatency" /\ IsPop
    /\ \E k, l \in 1..Len(ret.created) :
           k < l /\ ret.created[k] = 10 /\ ret.created[l] = 10

\* C10: both buffers: right after reset(), called directly or by a push that
\* returns RESET, the queue is empty and buffer_time and current_time are the
\* epoch; a MinimalLatencyBuffer then has no estimator and no placeholder.
C10_ResetState ==
    IsReset =>
        /\ Len(data) = 0 /\ buffer_time = Epoch /\ current_time = Epoch
        /\ kind = "MinimalLatency" =>
               DOMAIN source_infos = {} /\ \A s \in Sources : PlaceholdersOf(s) = {}

\* A push returns RESET to a MinimalLatencyBuffer that had released samples
\* before.
C10_Witness ==
    /\ kind = "MinimalLatency" /\ ret.op = "push" /\ ret.result = "RESET"
    /\ ret.buffer_time_before > Epoch /\ ret.current_time_before > Epoch

\* C11: MinimalLatencyBuffer: push returns RESET if and only if current_time
\* before the push minus receipt_time is strictly greater than
\* reset_threshold; then the queue is empty afterwards; otherwise push returns
\* OK and the pushed sample is in the queue as a real element.
C11_ResetIffJumpedBack ==
    (kind = "MinimalLatency" /\ ret.op = "push") =>
        /\ ret.result = "RESET"
               <=> ret.current_time_before - ret.time > ML_Params.reset_threshold
        /\ ret.result = "RESET" => data = <<>>
        /\ ret.result # "RESET" =>
               /\ ret.result = "OK"
               /\ \E i \in 1..Len(data) :
                      /\ data[i].data = <<npush>>
                      /\ data[i].id = ret.id /\ data[i].meas_time = ret.meas_time

\* A push is admitted although its receipt_time lies reset_threshold before
\* current_time.
C11_Witness ==
    /\ kind = "MinimalLatency" /\ ret.op = "push" /\ ret.result = "OK"
    /\ ret.current_time_before - ret.time = ML_Params.reset_threshold

\* C12: MinimalLatencyBuffer: a pop(now) with now < current_time returns
\* {buffer_time, no data, no discarded data} and changes nothing: the queue
\* with its created_placeholder flags, buffer_time, current_time and the
\* estimators stay as they were.
C12_OutOfOrderPopChangesNothing ==
    [][ (kind = "MinimalLatency" /\ ret'.op = "pop" /\ ret'.time < current_time) =>
            /\ ret'.buffer_time = buffer_time
            /\ ret'.data = <<>> /\ ret'.discarded_data = <<>>
            /\ data' = data /\ buffer_time' = buffer_time
            /\ current_time' = current_time /\ source_infos' = source_infos
      ]_vars

\* An out-of-order pop met a queue holding a sample that was due at that time
\* and had not yet created its placeholders.
C12_Witness ==
    /\ kind = "MinimalLatency" /\ ret.op = "pop" /\ ret.result = "REJECTED"
    /\ ret.time < current_time
    /\ \E i \in 1..Len(data) : /\ ~is_placeholder(data[i])
                               /\ ~data[i].created_placeholder
                               /\ data[i].latest_receipt_time <= ret.time

\* C13: both buffers, every mode: the data returned by a single pop is ordered
\* by meas_time ascending, data[i].meas_time <= data[i+1].meas_time.
C13_DataAscending ==
    IsPop => NonDecreasing(MeasTimesOf(ret.data))

\* C14: MinimalLatencyBuffer, every mode: no pop returns a placeholder; every
\* element of data and of discarded_data is a real sample, holding the payload
\* it was pushed with.
C14_NoPlaceholderReturned ==
    (kind = "MinimalLatency" /\ IsPop) =>
        \A s \in {ret.data, ret.discarded_data} : \A i \in 1..Len(s) :
            /\ s[i].data # <<>>
            /\ s[i].data[1] \in 1..npush

\* A pop returned samples and had passed over a placeholder on its way: a queue
\* position before that of a returned sample was neither output nor discarded.
C14_Witness ==
    /\ kind = "MinimalLatency" /\ IsPop /\ ret.data # <<>>
    /\ \E k \in SeqToSet(ret.output_inds) : \E j \in 1..(k - 1) :
           j \notin SeqToSet(ret.ready_inds) \cup SeqToSet(ret.discard_inds)

\* The samples of the queue s that satisfy the test.
SamplesWith(s, Test(_)) == { s[i] : i \in { j \in 1..Len(s) : Test(s[j]) } }

\* s lists exactly the members of the set, each once.
ListsExactly(s, set) == SeqToSet(s) = set /\ Len(s) = Cardinality(set)

\* C15: FixedLagBuffer in Single mode: pop(now) returns in data exactly the
\* queued samples with buffer_time < meas_time <= now - fixed_lag, returns in
\* discarded_data exactly the queued samples with meas_time <= buffer_time, and
\* leaves every sample with meas_time > now - fixed_lag in the queue.
C15_SinglePop ==
    [][ (kind = "FixedLag" /\ mode = "SINGLE" /\ ~crashed' /\ ret'.op = "pop") =>
            LET ref == ret'.time - fixed_lag_delay
            IN  /\ ListsExactly(ret'.data,
                       SamplesWith(data, LAMBDA e : buffer_time < e.meas_time /\ e.meas_time <= ref))
                /\ ListsExactly(ret'.discarded_data,
                       SamplesWith(data, LAMBDA e : e.meas_time <= buffer_time))
                /\ SamplesWith(data, LAMBDA e : e.meas_time > ref) \subseteq SeqToSet(data')
      ]_vars

\* C15 with the kept samples named by the code's two tests: pop(now) returns
\* in data exactly the queued samples with buffer_time < meas_time <= now -
\* fixed_lag, in discarded_data exactly those with meas_time <= buffer_time, and
\* leaves in the queue every sample with meas_time > now - fixed_lag that is
\* also newer than buffer_time.
C15_SinglePopKeepsNewer ==
    [][ (kind = "FixedLag" /\ mode = "SINGLE" /\ ~crashed' /\ ret'.op = "pop") =>
            LET ref == ret'.time - fixed_lag_delay
            IN  /\ ListsExactly(ret'.data,
                       SamplesWith(data, LAMBDA e : buffer_time < e.meas_time /\ e.meas_time <= ref))
                /\ ListsExactly(ret'.discarded_data,
                       SamplesWith(data, LAMBDA e : e.meas_time <= buffer_time))
                /\ SamplesWith(data, LAMBDA e : e.meas_time > ref /\ e.meas_time > buffer_time)
                       \subseteq SeqToSet(data')
      ]_vars

\* A Single-mode pop discarded a sample measured exactly at buffer_time,
\* returned a newer one and the buffer had released a sample before.
C15_Witness ==
    /\ kind = "FixedLag" /\ mode = "SINGLE" /\ IsPop
    /\ ret.data # <<>> /\ ret.discarded_data # <<>>
    /\ \E i \in 1..Len(ret.discarded_data) :
           ret.discarded_data[i].meas_time = ret.buffer_time_before

\* C16: MinimalLatencyBuffer in Match mode: a non-empty data of a pop contains
\* exactly one sample for each source in the estimator map and no other sample,
\* and its member of match.reference_stream is the oldest ready sample of that
\* stream.
C16_MatchTuple ==
    [][ (kind = "MinimalLatency" /\ mode = "MATCH" /\ ret'.op = "pop" /\ ret'.data # <<>>) =>
            LET R == ML_Params.match.reference_stream
                ready_refs == { data[i] : i \in { j \in SeqToSet(ret'.ready_inds) : data[j].id = R } }
            IN  /\ Len(ret'.data) = Cardinality(DOMAIN source_infos)
                /\ { ret'.data[i].id : i \in 1..Len(ret'.data) } = DOMAIN source_infos
                /\ \E i \in 1..Len(ret'.data) :
                       /\ ret'.data[i].id = R
                       /\ \E r \in ready_refs :
                              /\ r.data = ret'.data[i].data
                              /\ \A o \in ready_refs : r.meas_time <= o.meas_time
      ]_vars

\* A Match-mode pop returned a tuple of two sources while more samples than
\* the tuple's were ready, two of them of the reference stream.
C16_Witness ==
    /\ kind = "MinimalLatency" /\ mode = "MATCH" /\ IsPop
    /\ Len(ret.data) = 2 /\ Len(ret.ready_inds) > 2
    /\ \E i \in 1..Len(data) : data[i].id = ML_Params.match.reference_stream
                               /\ ~is_placeholder(data[i])

\* C17: FixedLagBuffer in Match mode: a non-empty data of a pop contains
\* exactly match.num_streams samples with pairwise distinct ids, one of them the
\* oldest output-ready sample of the reference stream; if no sample of the
\* reference stream is output-ready, data is empty and matching discards
\* nothing (only the samples no newer than buffer_time are discarded).
C17_MatchTuple ==
    [][ (kind = "FixedLag" /\ mode = "MATCH" /\ ~crashed' /\ ret'.op = "pop") =>
            LET R == FL_Params.match.reference_stream
                ready_refs == { data[i] : i \in { j \in SeqToSet(ret'.ready_inds) : data[j].id = R } }
                ids == { ret'.data[i].id : i \in 1..Len(ret'.data) }
            IN  /\ ret'.data # <<>> =>
                       /\ Len(ret'.data) = FL_Params.match.num_streams
                       /\ Cardinality(ids) = Len(ret'.data)
                       /\ \E i \in 1..Len(ret'.data) : \E r \in ready_refs :
                              /\ ret'.data[i] = r
                              /\ \A o \in ready_refs : r.meas_time <= o.meas_time
                /\ ready_refs = {} =>
                       /\ ret'.data = <<>>
                       /\ \A k \in SeqToSet(ret'.discard_inds) : data[k].meas_time <= buffer_time
      ]_vars

\* A Match-mode pop returned a tuple while a sample that belongs to no tuple
\* was ready as well.
C17_Witness ==
    /\ kind = "FixedLag" /\ mode = "MATCH" /\ IsPop
    /\ Len(ret.data) = 2 /\ Len(ret.ready_inds) > 2

\* A Match-mode pop found samples ready, none of them of the reference stream.
C17_WitnessNoReference ==
    /\ kind = "FixedLag" /\ mode = "MATCH" /\ IsPop
    /\ ret.data = <<>> /\ ret.ready_inds # <<>>

\* The corrected period estimate of the last update() call: (meas_time -
\* last_meas_time) - num_missing * period mean, in steps of 1 / Scale.
CorrectedEstimate ==
    (ret.meas_time - ret.before.last_meas_time) * Scale
        - ret.num_missing * ret.before.period_state.mean

\* C18: StreamCharacteristicsEstimator::update raises an error if and only if
\* num_updates > 10 and the corrected estimate is negative; when it raises,
\* every field of the estimator is unchanged; when the corrected estimate is
\* negative and 2 <= num_updates <= 10, no error is raised and the period mean
\* and variance are unchanged by that call.
C18_UpdateRaises ==
    (kind = "Estimator" /\ ret.op = "update") =>
        /\ ret.result = "THROWN"
               <=> (ret.before.num_updates > 10 /\ CorrectedEstimate < 0)
        /\ ret.result = "THROWN" => source_infos[1] = ret.before
        /\ (CorrectedEstimate < 0 /\ ret.before.num_updates \in 2..10) =>
               /\ ret.result = "OK"
               /\ source_infos[1].period_state = ret.before.period_state

\* An update raised after the estimator's period mean had moved off the first
\* period it saw.
C18_Witness ==
    /\ kind = "Estimator" /\ ret.op = "update" /\ ret.result = "THROWN"
    /\ ret.before.period_state.mean # Scale

\* C19: isInitialized() is true if and only if at least two update() calls have
\* returned normally since construction: num_updates starts at 0, is raised by
\* one by each update() that returns normally, and is changed neither by
\* updateLatencyOnly() nor by an update() that raises.
C19_InitializedAfterTwoUpdates ==
    kind = "Estimator" =>
        /\ source_infos[1].num_updates = ret.normal_updates
        /\ isInitialized(source_infos[1]) <=> ret.normal_updates >= 2

\* Three calls were made and the estimator is still not initialized, the last
\* one an updateLatencyOnly().
C19_Witness ==
    /\ kind = "Estimator" /\ ret.op = "updateLatencyOnly" /\ npush >= 3
    /\ ~isInitialized(source_infos[1])

\* C20: for a perfectly periodic stream of period d and constant latency L
\* (each update's meas_time (k + 1) * d after the last one and num_missing = k
\* passed, k = 0 for the first two updates), after every update period() = d,
\* latency() = L, period_stddev() = 0 and latency_stddev() = 0.
C20_PeriodicStreamExact ==
    (kind = "Estimator" /\ ret.op = "update" /\ ret.stream # <<>>) =>
        /\ ret.result = "OK"
        /\ period(source_infos[1]) = ret.stream.period
        /\ latency(source_infos[1]) = ret.stream.latency
        /\ period_stddev(source_infos[1]) = 0
        /\ latency_stddev(source_infos[1]) = 0

\* The twelfth update of a periodic stream came after two missing
\* measurements.
C20_Witness ==
    /\ kind = "Estimator" /\ ret.op = "update" /\ ret.stream # <<>>
    /\ ret.num_missing = 2 /\ source_infos[1].num_updates = MaxUpdates

\* The payloads of the elements of s that satisfy the test.
PayloadsWith(s, Test(_)) == { s[i].data : i \in { j \in 1..Len(s) : Test(s[j]) } }

\* C21: MinimalLatencyBuffer, every accepted pop: every real sample queued with
\* meas_time < buffer_time when the pop starts is returned in discarded_data,
\* removed from the queue and not returned in data; every other element of
\* discarded_data is a sample of match.reference_stream discarded by the
\* matching rule in Match mode, at most one per pop; in Single and Batch mode
\* there is no other element.
C21_DiscardedData ==
    [][ (kind = "MinimalLatency" /\ ret'.op = "pop" /\ ret'.result # "REJECTED") =>
            LET stale == PayloadsWith(data, LAMBDA e : ~is_placeholder(e) /\ e.meas_time < buffer_time)
                discarded == PayloadsWith(ret'.discarded_data, LAMBDA e : TRUE)
                others == { i \in 1..Len(ret'.discarded_data) : ret'.discarded_data[i].data \notin stale }
            IN  /\ stale \subseteq discarded
                /\ Len(ret'.discarded_data) = Cardinality(discarded)
                /\ stale \cap PayloadsWith(data', LAMBDA e : TRUE) = {}
                /\ stale \cap PayloadsWith(ret'.data, LAMBDA e : TRUE) = {}
                /\ Cardinality(others) <= 1
                /\ \A i \in others :
                       /\ mode = "MATCH"
                       /\ ret'.discarded_data[i].id = ML_Params.match.reference_stream
                       /\ ret'.discarded_data[i].data # <<>>
                       /\ ret'.data = <<>>
      ]_vars

\* A pop discarded a stale sample and returned a newer one in data.
C21_Witness ==
    /\ kind = "MinimalLatency" /\ IsPop /\ ret.data # <<>>
    /\ \E i \in 1..Len(ret.discarded_data) :
           ret.discarded_data[i].meas_time < ret.buffer_time_before

\* A Match-mode pop discarded the reference sample by the matching rule.
C21_WitnessReference ==
    /\ kind = "MinimalLatency" /\ mode = "MATCH" /\ IsPop
    /\ \E i \in 1..Len(ret.discarded_data) :
           ret.discarded_data[i].meas_time >= ret.buffer_time_before

\* C22: MinimalLatencyBuffer in Batch mode: an accepted pop whose set R of ready
\* real samples is non-empty returns either an empty data or exactly R; it
\* returns empty data if and only if the queue, at or after the last element of
\* R, holds a placeholder p with p.earliest_estimated_meas_time - t0 <
\* batch.max_delta and p.latest_receipt_time > now, t0 the meas_time of the
\* first element of R and now the pop time after the clamping of the walk.
C22_BatchAllOrNothing ==
    [][ (/\ kind = "MinimalLatency" /\ mode = "BATCH"
         /\ ret'.op = "pop" /\ ret'.result # "REJECTED" /\ ret'.ready_inds # <<>>) =>
            LET R == ret'.ready_inds
                t0 == data[R[1]].meas_time
                waiting ==
                    \E idx \in R[Len(R)]..Len(data) :
                        /\ data[idx].data = <<>>
                        /\ data[idx].earliest_estimated_meas_time - t0 < ML_Params.batch.max_delta
                        /\ data[idx].latest_receipt_time > ret'.clamped_time
            IN  /\ ret'.data = <<>> <=> waiting
                /\ ret'.data # <<>> =>
                       /\ Len(ret'.data) = Len(R)
                       /\ \A k \in 1..Len(R) : ret'.data[k].data = data[R[k]].data
      ]_vars

\* A Batch-mode pop found samples ready and held them back for a placeholder.
C22_Witness ==
    /\ kind = "MinimalLatency" /\ mode = "BATCH" /\ IsPop /\ ret.result # "REJECTED"
    /\ ret.ready_inds # <<>> /\ ret.data = <<>>

\* C23: MinimalLatencyBuffer: current_time is the maximum receipt_time over all
\* pushes that returned OK since the last reset, the epoch if there was none:
\* it starts at the epoch, each OK push sets it to max(previous current_time,
\* receipt_time), a reset sets it to the epoch, and pop never changes it.
C23_CurrentTimeIsMaxReceipt ==
    [][ kind = "MinimalLatency" =>
            /\ ret.op = "init" => current_time = Epoch
            /\ (ret'.op = "push" /\ ret'.result = "OK") =>
                   current_time' = Max(current_time, ret'.time)
            /\ (ret'.op = "push" /\ ret'.result = "RESET") => current_time' = Epoch
            /\ ret'.op = "reset" => current_time' = Epoch
            /\ ret'.op = "pop" => current_time' = current_time
      ]_vars

\* A push received before current_time returned OK and left current_time as
\* it was.
C23_Witness ==
    /\ kind = "MinimalLatency" /\ ret.op = "push" /\ ret.result = "OK"
    /\ ret.time < ret.current_time_before /\ current_time = ret.current_time_before

C25_BackwardsPopRejected ==
    [][ (/\ kind = "MinimalLatency" /\ ret'.op = "pop"
         /\ \/ ret.op = "pop"
            \/ ret.op = "push" /\ ret.result = "OK"
         /\ ret'.time < ret.time) =>
            /\ ret'.data = <<>> /\ ret'.discarded_data = <<>>
            /\ data' = data /\ buffer_time' = buffer_time
            /\ current_time' = current_time /\ source_infos' = source_infos
      ]_vars

\* C26: MinimalLatencyBuffer, every mode: no sample returned in data by
\* pop(now) is preceded in the sorted queue by a placeholder p with p.meas_time
\* >= buffer_time and p.latest_receipt_time >= now: a real sample is never
\* released while an earlier placeholder that can still be filled is pending.
C26_NotPastPendingPlaceholder ==
    [][ (kind = "MinimalLatency" /\ ret'.op = "pop" /\ ret'.result # "REJECTED") =>
            \A k \in SeqToSet(ret'.output_inds) : \A j \in 1..(k - 1) :
                ~ /\ data[j].data = <<>>
                  /\ data[j].meas_time >= buffer_time
                  /\ data[j].latest_receipt_time >= ret'.time
      ]_vars

\* A pop found nothing ready because it stopped at a pending placeholder, with
\* a sample measured by then queued behind it.
C26_Witness ==
    /\ kind = "MinimalLatency" /\ IsPop /\ ret.result # "REJECTED"
    /\ ret.ready_inds = <<>> /\ ret.created = <<>>
    /\ \E k \in 1..Len(data) : \E j \in 1..(k - 1) :
           /\ data[j].data = <<>>
           /\ data[j].meas_time >= buffer_time
           /\ data[j].latest_receipt_time >= ret.time
           /\ data[k].data # <<>>
           /\ data[k].meas_time <= ret.time

\* The sample pushed with payload p is queued.
Queued(p) == \E i \in 1..Len(data) : data[i].data = <<p>>

SamePopTwice ==
    /\ kind = "MinimalLatency" /\ mode = "SINGLE"
    /\ ret.op = "pop" /\ ret.result = ""
    /\ ret'.op = "pop" /\ ret'.time = ret.time

NoSampleTiesPlaceholder ==
    \A i, j \in 1..Len(data) :
        is_placeholder(data[i]) /\ ~is_placeholder(data[j]) => data[i].meas_time # data[j].meas_time

C29_BatchPop ==
    [][ (kind = "FixedLag" /\ mode = "BATCH" /\ ~crashed' /\ ret'.op = "pop") =>
            LET ref == ret'.time - fixed_lag_delay
                Ready == { i \in 1..Len(data) :
                             buffer_time < data[i].meas_time /\ data[i].meas_time <= ref }
            IN  Ready # {} =>
                LET first == CHOOSE i \in Ready : \A o \in Ready : i <= o
                    t0 == data[first].meas_time
                    limit == t0 + FL_Params.batch.max_delta
                IN  /\ ListsExactly(ret'.data,
                           { data[j] : j \in { k \in first..Len(data) :
                                                 k = first \/ data[k].meas_time < limit } })
                    /\ \A i \in Ready : data[i].meas_time >= limit => data[i] \in SeqToSet(data')
                    /\ \A k \in 1..Len(ret'.data) :
                           t0 <= ret'.data[k].meas_time /\ ret'.data[k].meas_time < limit
      ]_vars

\* A pop has returned a sample that is not yet older than now - fixed_lag.
C29_Witness ==
    /\ kind = "FixedLag" /\ mode = "BATCH" /\ IsPop
    /\ \E k \in 1..Len(ret.data) : ret.data[k].meas_time > ret.time - fixed_lag_delay

\* A pop has returned a batch and left a ready sample in the queue.
C29_WitnessKept ==
    /\ kind = "FixedLag" /\ mode = "BATCH" /\ IsPop /\ ret.data # <<>>
    /\ \E i \in 1..Len(data) :
           buffer_time < data[i].meas_time /\ data[i].meas_time <= ret.time - fixed_lag_delay

\* What runMatching finds on the queue q for the ready positions, which hold
\* a reference sample: the reference's position and the two reference times,
\* the sources the candidate map covers after both loops, and whether the
\* queue holds a sample that fits the next reference better than the current
\* one.
MatchScan(q, ready) ==
    LET R == ML_Params.match.reference_stream
        refs == RefsIn(q, ready, R)
        ref_idx == refs[1]
        oldest == q[ref_idx].meas_time
        next == IF Len(refs) > 1 THEN q[refs[2]].meas_time
                ELSE IF R \in DOMAIN source_infos THEN oldest + period(source_infos[R])
                ELSE Epoch
        c == ML_candidates(q, ready, 1, oldest, next, [id \in {R} |-> [idx |-> ref_idx, tau |-> 0]], 1)
        s == ML_waiting(q, c.latest_data_idx + 1, oldest, next, c.matching_map)
    IN  [ ref_idx |-> ref_idx,
          covered |-> DOMAIN s.matching_map,
          better_for_next |->
              \E idx \in 1..Len(q) :
                  /\ q[idx].id # R
                  /\ Abs(q[idx].meas_time - next) < Abs(q[idx].meas_time - oldest) ]

\* The sample at position idx of the queue is in the list s.
Lists(s, idx) == \E k \in 1..Len(s) : s[k].data = data[idx].data

\* A pop of a MinimalLatencyBuffer in Match mode finds a ready reference
\* sample, and the candidate map does not cover every known source.
MatchIncomplete ==
    /\ kind = "MinimalLatency" /\ mode = "MATCH"
    /\ ret'.op = "pop" /\ ret'.result = ""
    /\ RefsIn(data, ret'.ready_inds, ML_Params.match.reference_stream) # <<>>
    /\ MatchScan(data, ret'.ready_inds).covered # DOMAIN source_infos

\* C30: MinimalLatencyBuffer in Match mode, when a ready reference sample
\* exists but the candidate map does not cover every known source: pop
\* discards the current reference sample only if a sample fitting the next
\* reference better than the current one was observed while scanning the queue
\* beyond the ready set; otherwise it returns empty output and does not
\* discard the reference (it waits).
C30_DiscardOnlyIfBetterNext ==
    [][ MatchIncomplete =>
            LET scan == MatchScan(data, ret'.ready_inds)
            IN  /\ ret'.data = <<>>
                /\ Lists(ret'.discarded_data, scan.ref_idx) => scan.better_for_next
      ]_vars

\* C30, amended: in that case pop returns empty output and discards the
\* current reference sample, whether or not a better fitting sample was
\* observed.
C30_DiscardsReference ==
    [][ MatchIncomplete =>
            /\ ret'.data = <<>>
            /\ Lists(ret'.discarded_data, MatchScan(data, ret'.ready_inds).ref_idx)
      ]_vars

\* A pop in Match mode has discarded a ready reference sample, with a sample
\* of another source left in the queue.
C30_Witness ==
    /\ kind = "MinimalLatency" /\ mode = "MATCH" /\ IsPop /\ ret.result = ""
    /\ ret.data = <<>>
    /\ \E k \in 1..Len(ret.discarded_data) :
           /\ ret.discarded_data[k].id = ML_Params.match.reference_stream
           /\ ret.discarded_data[k].meas_time >= buffer_time
    /\ Cardinality(DOMAIN source_infos) > 1

\* What FixedLagBuffer::runMatching meets on the queue for the ready
\* positions, which hold a reference sample: the reference's position, the
\* position where the scan stops (0 if it runs to the end), the sources with a
\* candidate by then, and whether the sample it stops at is the first of its
\* source.
FL_MatchScan(ready) ==
    LET R == FL_Params.match.reference_stream
        refs == RefsIn(data, ready, R)
        ref_idx == refs[1]
        oldest == data[ref_idx].meas_time
        later == { idx \in (ref_idx + 1)..Len(data) : data[idx].id = R }
        next == IF later = {} THEN Epoch
                ELSE data[CHOOSE idx \in later : \A o \in later : idx <= o].meas_time
        Closer == { idx \in 1..Len(data) :
                      /\ data[idx].id # R
                      /\ Abs(data[idx].meas_time - next) < Abs(data[idx].meas_time - oldest) }
        stop == IF Closer = {} THEN 0 ELSE CHOOSE idx \in Closer : \A o \in Closer : idx <= o
        scanned == IF stop = 0 THEN 1..Len(data) ELSE 1..(stop - 1)
    IN  [ ref_idx |-> ref_idx,
          stop    |-> stop,
          covered |-> {R} \cup { data[idx].id : idx \in scanned },
          stopped_at_new |->
              stop # 0 /\ \A idx \in 1..(stop - 1) : data[idx].id # data[stop].id ]

\* A pop of a FixedLagBuffer in Match mode finds a ready reference sample, and
\* the number of sources with a candidate differs from match.num_streams.
FL_MatchIncomplete ==
    /\ kind = "FixedLag" /\ mode = "MATCH" /\ ~crashed'
    /\ ret'.op = "pop"
    /\ RefsIn(data, ret'.ready_inds, FL_Params.match.reference_stream) # <<>>
    /\ Cardinality(FL_MatchScan(ret'.ready_inds).covered) # FL_Params.match.num_streams

\* C31: FixedLagBuffer in Match mode, when an output-ready reference sample
\* exists but the number of distinct matched source ids differs from
\* match.num_streams: the reference sample is returned in discarded_data if and
\* only if the queue scan stopped at a non-reference sample that is closer to
\* the next reference time than to the current one and whose source has no
\* candidate yet; otherwise the pop outputs nothing, matching discards nothing
\* (only samples not newer than buffer_time are discarded) and the reference
\* stays queued.
C31_DiscardIffBetterForNext ==
    [][ FL_MatchIncomplete =>
            LET scan == FL_MatchScan(ret'.ready_inds)
            IN  /\ ret'.data = <<>>
                /\ Lists(ret'.discarded_data, scan.ref_idx) <=> scan.stopped_at_new
                /\ ~scan.stopped_at_new =>
                       /\ \A k \in 1..Len(ret'.discarded_data) :
                              ret'.discarded_data[k].meas_time <= buffer_time
                       /\ data[scan.ref_idx] \in SeqToSet(data')
      ]_vars

\* A pop in Match mode has discarded a reference sample newer than
\* buffer_time.
C31_Witness ==
    /\ kind = "FixedLag" /\ mode = "MATCH" /\ IsPop /\ ret.data = <<>>
    /\ \E k \in 1..Len(ret.discarded_data) :
           /\ ret.discarded_data[k].id = FL_Params.match.reference_stream
           /\ ret.discarded_data[k].meas_time > ret.buffer_time_before

\* A pop in Match mode has kept a ready reference sample and returned nothing.
C31_WitnessWaits ==
    /\ kind = "FixedLag" /\ mode = "MATCH" /\ IsPop /\ ret.data = <<>>
    /\ \E i \in 1..Len(data) :
           /\ data[i].id = FL_Params.match.reference_stream
           /\ buffer_time < data[i].meas_time
           /\ data[i].meas_time <= ret.time - fixed_lag_delay


\* A pop in Match mode has met candidates of more sources than
\* match.num_streams, has stopped at a sample of a source that had a candidate,
\* and has kept the reference sample.
C31_WitnessKnownSource ==
    /\ kind = "FixedLag" /\ mode = "MATCH" /\ IsPop
    /\ ret.data = <<>> /\ ret.discarded_data = <<>>
    /\ RefsIn(data, ret.ready_inds, FL_Params.match.reference_stream) # <<>>
    /\ LET scan == FL_MatchScan(ret.ready_inds)
       IN  /\ Cardinality(scan.covered) > FL_Params.match.num_streams
           /\ scan.stop # 0 /\ ~scan.stopped_at_new


\* The reference time and the next reference time of a pop of a
\* MinimalLatencyBuffer in Match mode whose ready positions hold a reference
\* sample.
ML_MatchTimes(ready) ==
    LET R == ML_Params.match.reference_stream
        refs == RefsIn(data, ready, R)
        t_ref == data[refs[1]].meas_time
    IN  [ t_ref |-> t_ref,
          t_next |-> IF Len(refs) > 1 THEN data[refs[2]].meas_time
                     ELSE IF R \in DOMAIN source_infos THEN t_ref + period(source_infos[R])
                     ELSE Epoch ]

\* The sample at position idx is not strictly closer to t_next than to t_ref.
FitsReference(t, idx) ==
    ~(Abs(data[idx].meas_time - t.t_next) < Abs(data[idx].meas_time - t.t_ref))

\* A pop of a MinimalLatencyBuffer in Match mode emits a tuple.
ML_TupleEmitted ==
    /\ kind = "MinimalLatency" /\ mode = "MATCH"
    /\ ret'.op = "pop" /\ ret'.data # <<>>

\* C32: MinimalLatencyBuffer in Match mode: in every emitted tuple with
\* reference time t_ref and next reference time t_next, each non-reference
\* member is, among the ready samples of its source that are not strictly
\* closer to t_next than to t_ref, one with the smallest |meas_time - t_ref|,
\* and among equally distant ones the first in queue order.
C32_NearestReadySample ==
    [][ ML_TupleEmitted =>
            LET ready == SeqToSet(ret'.ready_inds)
                t == ML_MatchTimes(ret'.ready_inds)
            IN  \A k \in 1..Len(ret'.data) :
                    ret'.data[k].id # ML_Params.match.reference_stream =>
                        \E j \in ready :
                            /\ data[j].data = ret'.data[k].data
                            /\ data[j].id = ret'.data[k].id
                            /\ FitsReference(t, j)
                            /\ \A o \in ready :
                                   data[o].id = data[j].id /\ FitsReference(t, o) =>
                                       LET dj == Abs(data[j].meas_time - t.t_ref)
                                           do == Abs(data[o].meas_time - t.t_ref)
                                       IN  dj < do \/ (dj = do /\ j <= o)
      ]_vars

\* A pop in Match mode has emitted a tuple with a sample of source 2 and has
\* left in the queue an older sample of source 2 that was newer than
\* buffer_time.
C32_Witness ==
    /\ kind = "MinimalLatency" /\ mode = "MATCH" /\ IsPop
    /\ \E k \in 1..Len(ret.data), i \in 1..Len(data) :
           /\ ret.data[k].id # ML_Params.match.reference_stream
           /\ data[i].id = ret.data[k].id
           /\ ~is_placeholder(data[i])
           /\ ret.buffer_time_before < data[i].meas_time
           /\ data[i].meas_time < ret.data[k].meas_time


\* The last call was a push to a MinimalLatencyBuffer that returned OK.
ML_PushedOK == kind = "MinimalLatency" /\ ret.op = "push" /\ ret.result = "OK"

\* C33: MinimalLatencyBuffer: after every push(id, receipt_time, meas_time,
\* payload) that returns OK, the queue contains no placeholder of source id
\* with meas_time < the pushed meas_time, including placeholders created
\* during that same push.
C33_NoOlderPlaceholder ==
    ML_PushedOK =>
        \A i \in 1..Len(data) :
            ~(data[i].id = ret.id /\ is_placeholder(data[i]) /\ data[i].meas_time < ret.meas_time)

\* A push has created placeholders, and fewer placeholders of its source are
\* in the queue than it created: one it created was older than the sample.
C33_Witness ==
    /\ ML_PushedOK /\ ret.created # <<>>
    /\ Cardinality(PlaceholdersOf(ret.id)) < ret.created[1]


\* Every placeholder of the queue q belongs to a source whose estimator in
\* infos is initialized.
PlaceholdersInitialized(q, infos) ==
    \A i \in 1..Len(q) :
        is_placeholder(q[i]) =>
            q[i].id \in DOMAIN infos /\ infos[q[i].id].num_updates >= 2

\* C34: MinimalLatencyBuffer: at every API boundary every placeholder in the
\* queue belongs to a source that is in the estimator map with num_updates >= 2;
\* and a placeholder that a call adds to the queue belongs to a source whose
\* estimator was initialized when the call began, the estimator that
\* createPlaceholder reads: its "base sample is not initialized" error is
\* never raised.
C34_PlaceholdersOfInitializedSources ==
    [][ kind = "MinimalLatency" =>
            /\ PlaceholdersInitialized(data', source_infos')
            /\ \A i \in 1..Len(data') :
                   is_placeholder(data'[i]) /\ data'[i] \notin SeqToSet(data) =>
                       /\ data'[i].id \in DOMAIN source_infos
                       /\ isInitialized(source_infos[data'[i].id])
      ]_vars

\* The queue holds a placeholder of one source and a sample of another source,
\* which is known but has no initialized estimator.
C34_Witness ==
    /\ kind = "MinimalLatency"
    /\ \E i, j \in 1..Len(data) :
           /\ is_placeholder(data[i])
           /\ ~is_placeholder(data[j])
           /\ data[j].id \in DOMAIN source_infos
           /\ ~isInitialized(source_infos[data[j].id])


\* The real elements of the queue q.
RealIn(q) == { i \in 1..Len(q) : ~is_placeholder(q[i]) }

\* The positions of the queue at which the sample pushed last sits.
PushedAt(q) == { i \in 1..Len(q) : q[i].data = <<npush'>> }

\* A push to a MinimalLatencyBuffer from a source it knows returns OK.
ML_KnownSourcePush ==
    /\ kind = "MinimalLatency"
    /\ ret'.op = "push" /\ ret'.result = "OK"
    /\ ret'.id \in DOMAIN source_infos

\* The placeholders of the pushed source that are nearer to the pushed
\* meas_time than period/2 (a Duration, halved in whole ticks).
NearPlaceholders ==
    { i \in PlaceholdersOf(ret'.id) :
        Abs(data[i].meas_time - ret'.meas_time) < HalfOf(period(source_infos[ret'.id])) }

\* C35: MinimalLatencyBuffer push from an already known source: if some
\* placeholder of that source has |placeholder.meas_time - pushed meas_time|
\* strictly less than period/2, a placeholder with the smallest such distance
\* is converted into the real sample (meas_time, receipt_time and payload take
\* the pushed values; earliest_estimated_meas_time and latest_receipt_time keep
\* the placeholder's values) and no further element is added for the sample;
\* otherwise a new real element is added; in both cases the number of real
\* elements in the queue grows by exactly one.
C35_BestFitConversion ==
    [][ ML_KnownSourcePush =>
            /\ Cardinality(PushedAt(data')) = 1
            /\ Cardinality(RealIn(data')) = Cardinality(RealIn(data)) + 1
            /\ \A j \in PushedAt(data') :
                   /\ data'[j].id = ret'.id
                   /\ data'[j].meas_time = ret'.meas_time
                   /\ data'[j].receipt_time = ret'.time
                   /\ IF NearPlaceholders # {}
                      THEN \E i \in NearPlaceholders :
                               /\ \A o \in NearPlaceholders :
                                      Abs(data[i].meas_time - ret'.meas_time)
                                          <= Abs(data[o].meas_time - ret'.meas_time)
                               /\ data'[j].earliest_estimated_meas_time
                                      = data[i].earliest_estimated_meas_time
                               /\ data'[j].latest_receipt_time = data[i].latest_receipt_time
                               /\ Cardinality(PlaceholdersOf(ret'.id))
                                      > Cardinality({ k \in 1..Len(data') :
                                            /\ is_placeholder(data'[k])
                                            /\ data'[k] \in SeqToSet(data) })
                      ELSE /\ data'[j].earliest_estimated_meas_time = ret'.meas_time
                           /\ data'[j].latest_receipt_time = ret'.time
      ]_vars

\* A push has converted a placeholder whose times differ from the sample's.
C35_Witness ==
    /\ ML_PushedOK
    /\ \E j \in 1..Len(data) :
           /\ data[j].data = <<npush>>
           /\ \/ data[j].earliest_estimated_meas_time # data[j].meas_time
              \/ data[j].latest_receipt_time # data[j].receipt_time

\* A push from a known source has added a new element though a placeholder of
\* the source was in the queue.
C35_WitnessAppended ==
    /\ ML_PushedOK /\ ret.output_inds = <<>>
    /\ PlaceholdersOf(ret.id) # {}
    /\ \E j \in 1..Len(data) :
           /\ data[j].data = <<npush>>
           /\ data[j].earliest_estimated_meas_time = data[j].meas_time


\* What create_placeholders does on the element e in the present state.
ExpansionContract(e) ==
    LET cp == create_placeholders(e, MAX_INSERTED_PLACEHOLDERS)
        n == Len(cp.out)
    IN  IF \/ e.id \notin DOMAIN source_infos
           \/ source_infos[e.id].num_updates < 2
           \/ e.created_placeholder
        THEN cp.out = <<>> /\ cp.element = e
        ELSE /\ cp.element = [e EXCEPT !.created_placeholder = TRUE]
             /\ n \in 1..10
             /\ \A k \in 1..n :
                    /\ is_placeholder(cp.out[k]) /\ cp.out[k].id = e.id
                    /\ cp.out[k].earliest_estimated_meas_time
                           = createPlaceholder(e.id, e.meas_time, k).earliest_estimated_meas_time
             /\ \A k \in 1..(n - 1) :
                    /\ cp.out[k].earliest_estimated_meas_time <= buffer_time
                    /\ cp.out[k].created_placeholder
             /\ cp.out[n].created_placeholder
                    = ~(cp.out[n].earliest_estimated_meas_time > buffer_time)
             /\ n < 10 => cp.out[n].earliest_estimated_meas_time > buffer_time

\* A sample that was expanded stays so while it is in the queue, and so does
\* the sample a push makes of an expanded placeholder.
StaysExpanded ==
    /\ \A i \in 1..Len(data), j \in 1..Len(data') :
           /\ ~is_placeholder(data[i]) /\ data'[j].data = data[i].data
           /\ data[i].created_placeholder
           => data'[j].created_placeholder
    /\ ML_KnownSourcePush /\ ret'.output_inds # <<>> =>
           \A j \in PushedAt(data') :
               data[ret'.output_inds[1]].created_placeholder => data'[j].created_placeholder

\* C36: MinimalLatencyBuffer placeholder expansion (create_placeholders on
\* element e): it returns nothing and changes nothing if e's source is unknown
\* or not initialized or e.created_placeholder is already true; otherwise it
\* sets e.created_placeholder and returns between 1 and 10 placeholders for
\* k = 1, 2, ..., stopping at the first whose earliest_estimated_meas_time >
\* buffer_time; every returned placeholder has created_placeholder = true
\* except the last one, which has created_placeholder = false exactly when its
\* earliest_estimated_meas_time > buffer_time.  Hence each queue element is
\* expanded at most once over its lifetime: a ready sample that pop expands
\* is marked where it goes, and the mark stays.
C36_ExpandedOnce ==
    [][ kind = "MinimalLatency" /\ ~crashed' =>
            /\ \A i \in 1..Len(data) : ExpansionContract(data[i])
            /\ StaysExpanded
            /\ ret'.op = "pop" /\ ret'.result = "" =>
                   \A k \in 1..Len(ret'.ready_inds) :
                       LET e == data[ret'.ready_inds[k]]
                       IN  create_placeholders(e, MAX_INSERTED_PLACEHOLDERS).out # <<>> =>
                               \E m \in SeqToSet(data') \cup SeqToSet(ret'.data)
                                         \cup SeqToSet(ret'.discarded_data) :
                                   m.data = e.data /\ m.created_placeholder
      ]_vars

\* A pop has expanded an element into two placeholders or more, and a sample
\* that has been expanded is in the queue.
C36_Witness ==
    /\ kind = "MinimalLatency" /\ IsPop
    /\ \E k \in 1..Len(ret.created) : ret.created[k] >= 2
    /\ \E i \in 1..Len(data) : ~is_placeholder(data[i]) /\ data[i].created_placeholder


\* The estimator update inside a push from a known source raises: the source is
\* initialized, a placeholder (at ret'.output_inds) fits best, more than ten
\* updates were counted, and the period measured, less the mean period for each
\* placeholder missed, is negative.
UpdateRaises ==
    /\ ML_KnownSourcePush /\ ret'.output_inds # <<>>
    /\ LET e == source_infos[ret'.id]
           older == { i \in PlaceholdersOf(ret'.id) : data[i].meas_time < ret'.meas_time }
           missed == IF older # {} /\ ret'.meas_time > data[ret'.output_inds[1]].meas_time
                     THEN Cardinality(older) - 1 ELSE Cardinality(older)
       IN  /\ e.num_updates > 10
           /\ (ret'.meas_time - e.last_meas_time) * Scale - missed * e.period_state.mean < 0

\* C37: MinimalLatencyBuffer: when the estimator update inside push raises the
\* desync error, push still returns OK, the pushed sample is in the queue as a
\* real element, and the estimator state of that source (means, variances,
\* anchors, num_updates) is the same as before the push.
C37_RaisingUpdateLeavesEstimator ==
    [][ UpdateRaises =>
            /\ ret'.result = "OK"
            /\ \E j \in 1..Len(data') :
                   /\ data'[j].data = <<npush'>>
                   /\ data'[j].id = ret'.id
                   /\ data'[j].meas_time = ret'.meas_time
            /\ source_infos' = source_infos
      ]_vars

\* A push has returned OK and has left an estimator that counts more than ten
\* updates with the meas_time of an earlier sample: its update raised.
C37_Witness ==
    /\ ML_PushedOK
    /\ ret.id \in DOMAIN source_infos
    /\ source_infos[ret.id].num_updates > 10
    /\ source_infos[ret.id].last_meas_time # ret.meas_time
    /\ \E j \in 1..Len(data) : data[j].data = <<npush>> /\ data[j].meas_time = ret.meas_time


\* The sample with payload p is a real element of the queue q.
QueuedIn(q, p) == \E i \in 1..Len(q) : q[i].data = <<p>>

\* The step is a reset: reset() or a push that returned RESET.
ResetStep == ret'.op = "reset" \/ (ret'.op = "push" /\ ret'.result = "RESET")

\* The pop of this step returns the sample with payload p, in `data` or in
\* `discarded_data`.
ReturnedNow(p) ==
    /\ ret'.op = "pop"
    /\ \E m \in SeqToSet(ret'.data) \cup SeqToSet(ret'.discarded_data) : m.data = <<p>>

\* C38: MinimalLatencyBuffer, no silent loss: between resets, every sample
\* admitted by a push that returned OK is at every later API boundary either
\* still in the queue as a real element or has been returned by exactly one
\* pop (in `data` or in `discarded_data`); a real sample leaves the queue only
\* by being returned from pop or by a reset.
C38_NoSilentLoss ==
    [][ kind = "MinimalLatency" /\ ~ResetStep =>
            /\ ret'.op = "push" /\ ret'.result = "OK" =>
                   QueuedIn(data', npush') /\ returned'[npush'] = 0
            /\ \A p \in Payloads :
                   /\ QueuedIn(data, p) /\ returned[p] = 0 =>
                          \/ QueuedIn(data', p) /\ returned'[p] = 0 /\ ~ReturnedNow(p)
                          \/ ~QueuedIn(data', p) /\ returned'[p] = 1 /\ ReturnedNow(p)
                   /\ ~QueuedIn(data, p) /\ returned[p] = 1 =>
                          ~QueuedIn(data', p) /\ returned'[p] = 1 /\ ~ReturnedNow(p)
      ]_vars

\* A pop has returned one sample in `data` and one in `discarded_data`, and a
\* third sample is in the queue.
C38_Witness ==
    /\ kind = "MinimalLatency" /\ IsPop
    /\ ret.data # <<>> /\ ret.discarded_data # <<>>
    /\ \E p \in Payloads : QueuedIn(data, p) /\ returned[p] = 0


\* What tells one placeholder from another: all but created_placeholder,
\* which pop sets.
PlaceholderKey(e) ==
    << e.id, e.meas_time, e.receipt_time, e.earliest_estimated_meas_time, e.latest_receipt_time >>

\* The number of placeholders with key k in the queue q.
PlaceholderCount(q, k) ==
    Cardinality({ i \in 1..Len(q) : is_placeholder(q[i]) /\ PlaceholderKey(q[i]) = k })

\* Every placeholder of the queue whose source is not id is in the queue after
\* the step, as often as before.
PlaceholdersKept(id) ==
    \A i \in 1..Len(data) :
        is_placeholder(data[i]) /\ data[i].id # id =>
            PlaceholderCount(data', PlaceholderKey(data[i]))
                >= PlaceholderCount(data, PlaceholderKey(data[i]))

\* C39: MinimalLatencyBuffer pop frame: a pop never removes a placeholder from
\* the queue and never changes the estimator map or current_time; a
\* placeholder leaves the queue only through a push of its own source
\* (conversion into the real sample or the stale sweep) or through a reset: a
\* pop and a push of another source keep it.
C39_PopFrame ==
    [][ kind = "MinimalLatency" =>
            /\ ret'.op = "pop" =>
                   /\ PlaceholdersKept(0)
                   /\ source_infos' = source_infos
                   /\ current_time' = current_time
            /\ ret'.op = "push" /\ ret'.result = "OK" => PlaceholdersKept(ret'.id)
      ]_vars

\* A pop has returned a sample and has left in the queue a placeholder older
\* than buffer_time.
C39_Witness ==
    /\ kind = "MinimalLatency" /\ IsPop /\ ret.result = "" /\ ret.data # <<>>
    /\ \E i \in 1..Len(data) : is_placeholder(data[i]) /\ data[i].meas_time < buffer_time

\* A push of one source has left in the queue a placeholder of the other
\* source that is older than the pushed sample.
C39_WitnessOtherSource ==
    /\ ML_PushedOK
    /\ \E i \in 1..Len(data) :
           is_placeholder(data[i]) /\ data[i].id # ret.id /\ data[i].meas_time < ret.meas_time


\* The members of the buffer have the values the constructor leaves; mode and
\* fixed_lag_delay, set from the parameters, never change.
FreshlyConstructed ==
    /\ data = <<>>
    /\ source_infos = <<>>
    /\ buffer_time = Epoch
    /\ current_time = Epoch
    /\ ~crashed
    /\ fixed_lag_delay \in
           IF kind = "FixedLag" THEN { FL_FixedLagDelay(d, mode) : d \in DelayMeans } ELSE {0}

\* What the first call to a freshly constructed buffer returns and leaves, as
\* a function of the call alone.
FirstCallOutcome ==
    LET threshold == IF kind = "FixedLag" THEN FL_Params.reset_threshold
                     ELSE ML_Params.reset_threshold
        untouched == /\ data' = <<>> /\ source_infos' = <<>>
                     /\ buffer_time' = Epoch /\ current_time' = Epoch
    IN  /\ ret'.op = "reset" => untouched
        /\ ret'.op = "pop" =>
               /\ ret'.result = IF kind = "MinimalLatency" /\ ret'.time < Epoch
                                THEN "REJECTED" ELSE ""
               /\ ret'.data = <<>> /\ ret'.discarded_data = <<>>
               /\ ret'.buffer_time = Epoch
               /\ untouched
        /\ ret'.op = "push" =>
               IF Epoch - ret'.time > threshold
               THEN ret'.result = "RESET" /\ untouched
               ELSE /\ ret'.result = "OK"
                    /\ data' = << TimeData(ret'.id, ret'.meas_time, ret'.time,
                                           ret'.meas_time, ret'.time, <<npush'>>) >>
                    /\ buffer_time' = Epoch
                    /\ current_time' = IF kind = "MinimalLatency"
                                       THEN Max(Epoch, ret'.time) ELSE Epoch
                    /\ source_infos' =
                           IF kind = "MinimalLatency"
                           THEN [id \in {ret'.id} |-> Estimator(ret'.time, ret'.meas_time)]
                           ELSE <<>>

\* C40: for both buffers, a buffer that has been reset (by reset() or by a push
\* returning RESET) is indistinguishable from a freshly constructed buffer with
\* the same parameters: its members have the values the constructor leaves,
\* and the call that follows the reset returns and leaves what it returns and
\* leaves as the first call to a buffer just constructed.
C40_ResetIsFresh ==
    [][ /\ IsReset' => FreshlyConstructed'
        /\ IsReset \/ ret.op = "init" => FirstCallOutcome
      ]_vars

\* A sample has been pushed to a MinimalLatencyBuffer that was reset after
\* two pushes or more: it is alone in the queue, nothing has been returned,
\* and its source has the only estimator.
C40_Witness ==
    /\ ML_PushedOK /\ npush >= 3
    /\ Len(data) = 1
    /\ \A p \in Payloads : returned[p] = 0
    /\ DOMAIN source_infos = {ret.id}

====
